---- MODULE Spec2Model ----
(***************************************************************************)
(* Resume Intelligence Pipeline of the intelligent-resume-analysis-system  *)
(* backend: document extraction (app/utils/pdf_parser.py), section         *)
(* segmentation and reconstruction (app/services/ats_converter.py), skill  *)
(* matching (app/services/nlp_analyzer.py, app/services/missing_skills.py) *)
(* and ATS scoring (app/services/ats_scorer.py).                           *)
(*                                                                         *)
(* Texts are TLA+ strings; Len, SubSeq and \o act on them character by     *)
(* character, so the string functions of the code are computed here as the *)
(* code computes them.                                                     *)
(***************************************************************************)
EXTENDS Integers, Sequences, FiniteSets, TLC

VARIABLES
    pc,        \* extractor: position inside parse_resume_file
    file,      \* extractor: the uploaded file as the first engine sees it
    attempts,  \* extractor: engines attempted so far, with what each produced
    ret,       \* extractor: what parse_resume_file returned or raised
    segPc,        \* segmenter: position inside convert_resume and the download
    segText,      \* segmenter: resume_text given to convert_resume
    segKeywords,  \* segmenter: job_keywords given to convert_resume
    segLines,     \* segmenter: lines the walk of _extract_sections has not visited
    segWalk,      \* segmenter: locals of the walk of _extract_sections
    segFollowed,  \* segmenter: history of what the walk did with each line
    segSections,  \* segmenter: the section map of convert_resume
    segAts,       \* segmenter: ats_resume, the reconstructed text
    segAgain,     \* segmenter: the section map download_ats_docx re-extracts
    gapPc,      \* gap analyzer: position of the call of analyze
    gapJob,     \* gap analyzer: job_description given to analyze
    gapResume,  \* gap analyzer: resume_skills given to analyze
    gapLocals,  \* gap analyzer: locals of analyze before the lists are cut
    gapRet,     \* gap analyzer: the dict analyze returned
    matchPc,    \* matchers: position in the matching of the current text
    matchText,  \* matchers: the text given to both matchers
    matchNlp,   \* matchers: what extract_skills returned for the text
    matchJob,   \* matchers: what _extract_skills_from_text found in the text
    matchPrev,  \* matchers: the text matched before, with both results
    scorePc,      \* scorer: position of the call of calculate_ats_score
    scoreResume,  \* scorer: resume_text given to calculate_ats_score
    scoreJob,     \* scorer: job_description given to calculate_ats_score
    scoreRet,     \* scorer: the dict calculate_ats_score returned
    reqPc,        \* routes: position of each request inside its route
    reqIn,        \* routes: route, user, file name, second and document of each request
    reqText,      \* routes: resume_text of each request
    reqOut,       \* routes: the response of each request
    uploads,      \* routes: the files of the upload folder, path to content
    resumes,      \* routes: the collection mongo.db.resumes
    ats_resumes,  \* routes: the collection mongo.db.ats_resumes
    fileLog,      \* routes: history of accesses to files another request saved
    jobPc,    \* serving: position of the request inside its route
    jobReq,   \* serving: the request, with what its engine calls produce
    jobOut,   \* serving: the response of the request
    jobDb,    \* serving: the collections of mongo.db the routes read and write
    userDb,   \* accounts: the collection mongo.db.users, in insertion order
    held,     \* accounts: the tokens the client holds
    authOut,  \* accounts: the response of the last request
    saResumes,       \* skill analysis: the collection mongo.db.resumes
    skill_analysis,  \* skill analysis: the collection mongo.db.skill_analysis
    saOut            \* skill analysis: the response of the last request

extractorVars == <<pc, file, attempts, ret>>

segmenterVars == <<segPc, segText, segKeywords, segLines, segWalk, segFollowed,
                   segSections, segAts, segAgain>>

gapVars == <<gapPc, gapJob, gapResume, gapLocals, gapRet>>

skillsVars == <<matchPc, matchText, matchNlp, matchJob, matchPrev>>

scorerVars == <<scorePc, scoreResume, scoreJob, scoreRet>>

routesVars == <<reqPc, reqIn, reqText, reqOut, uploads, resumes, ats_resumes,
                fileLog>>

jobsVars == <<jobPc, jobReq, jobOut, jobDb>>

authVars == <<userDb, held, authOut>>

skillAnalysisVars == <<saResumes, skill_analysis, saOut>>

vars == <<extractorVars, segmenterVars, gapVars, skillsVars, scorerVars,
          routesVars, jobsVars, authVars, skillAnalysisVars>>

\* components other than the one a specification runs stay idle
ExtractorIdle == pc = "idle" /\ file = <<>> /\ attempts = <<>> /\ ret = <<>>

SegmenterIdle ==
    /\ segPc = "idle" /\ segText = "" /\ segKeywords = <<>> /\ segLines = <<>>
    /\ segWalk = <<>> /\ segFollowed = <<>> /\ segSections = <<>>
    /\ segAts = "" /\ segAgain = <<>>

GapIdle ==
    /\ gapPc = "idle" /\ gapJob = "" /\ gapResume = <<>> /\ gapLocals = <<>>
    /\ gapRet = <<>>

SkillsIdle ==
    /\ matchPc = "idle" /\ matchText = "" /\ matchNlp = <<>> /\ matchJob = {}
    /\ matchPrev = <<>>

ScorerIdle ==
    scorePc = "idle" /\ scoreResume = "" /\ scoreJob = "" /\ scoreRet = <<>>

RoutesIdle ==
    /\ reqPc = <<>> /\ reqIn = <<>> /\ reqText = <<>> /\ reqOut = <<>>
    /\ uploads = <<>> /\ resumes = {} /\ ats_resumes = {} /\ fileLog = {}

JobsIdle ==
    jobPc = "idle" /\ jobReq = <<>> /\ jobOut = <<>> /\ jobDb = <<>>

AuthIdle == userDb = <<>> /\ held = <<>> /\ authOut = <<>>

SkillAnalysisIdle == saResumes = {} /\ skill_analysis = {} /\ saOut = <<>>

outsideExtractor ==
    <<segmenterVars, gapVars, skillsVars, scorerVars, routesVars, jobsVars, authVars,
     skillAnalysisVars>>

outsideSegmenter ==
    <<extractorVars, gapVars, skillsVars, scorerVars, routesVars, jobsVars, authVars,
     skillAnalysisVars>>

outsideGap ==
    <<extractorVars, segmenterVars, skillsVars, scorerVars, routesVars, jobsVars, authVars,
     skillAnalysisVars>>

outsideSkills ==
    <<extractorVars, segmenterVars, gapVars, scorerVars, routesVars, jobsVars, authVars,
     skillAnalysisVars>>

outsideRoutes ==
    <<extractorVars, segmenterVars, gapVars, skillsVars, scorerVars, jobsVars, authVars,
     skillAnalysisVars>>

outsideScorer ==
    <<extractorVars, segmenterVars, gapVars, skillsVars, routesVars, jobsVars, authVars,
     skillAnalysisVars>>

outsideJobs ==
    <<extractorVars, segmenterVars, gapVars, skillsVars, scorerVars,
      routesVars, authVars, skillAnalysisVars>>

outsideAuth ==
    <<extractorVars, segmenterVars, gapVars, skillsVars, scorerVars,
      routesVars, jobsVars, skillAnalysisVars>>

outsideSkillAnalysis ==
    <<extractorVars, segmenterVars, gapVars, skillsVars, scorerVars,
      routesVars, jobsVars, authVars>>

-----------------------------------------------------------------------------
(* Python string primitives                                                *)

\* s[i-1] in Python terms: the i-th character of s, as a one-character string
Ch(s, i) == SubSeq(s, i, i)

\* the characters str.strip() and the regex class \s remove
WhiteSpace == {" ", "\t", "\n", "\r", "\f"}

Min(S) == CHOOSE k \in S : \A m \in S : k <= m
Max(S) == CHOOSE k \in S : \A m \in S : m <= k

\* index of the first character at or after i that is not in set (Len(s)+1 if none)
SkipWhile(s, i, set) ==
    LET rest == {k \in i..Len(s) : Ch(s, k) \notin set}
    IN  IF rest = {} THEN Len(s) + 1 ELSE Min(rest)

\* index of the first character at or after i that is in set (Len(s)+1 if none)
NextIn(s, i, set) ==
    LET rest == {k \in i..Len(s) : Ch(s, k) \in set}
    IN  IF rest = {} THEN Len(s) + 1 ELSE Min(rest)

\* str.strip()
Strip(s) ==
    LET kept == {k \in 1..Len(s) : Ch(s, k) \notin WhiteSpace}
    IN  IF kept = {} THEN "" ELSE SubSeq(s, Min(kept), Max(kept))

\* sep.join(parts)
RECURSIVE Join(_, _)
Join(parts, sep) ==
    IF parts = <<>> THEN ""
    ELSE IF Len(parts) = 1 THEN parts[1]
    ELSE parts[1] \o sep \o Join(Tail(parts), sep)

\* str.split(sep) for a one-character separator
RECURSIVE SplitFrom(_, _, _)
SplitFrom(s, sep, start) ==
    LET i == NextIn(s, start, {sep})
    IN  IF i > Len(s) THEN <<SubSeq(s, start, Len(s))>>
        ELSE <<SubSeq(s, start, i - 1)>> \o SplitFrom(s, sep, i + 1)

Split(s, sep) == SplitFrom(s, sep, 1)

\* n copies of the character c
RECURSIVE Rep(_, _)
Rep(c, n) ==
    IF n <= 0 THEN ""
    ELSE LET half == Rep(c, n \div 2)
         IN  half \o half \o (IF n % 2 = 1 THEN c ELSE "")

\* s from position i on, with every character of set removed
RECURSIVE RemoveChars(_, _, _)
RemoveChars(s, i, set) ==
    LET j == NextIn(s, i, set)
    IN  IF j > Len(s) THEN SubSeq(s, i, Len(s))
        ELSE SubSeq(s, i, j - 1) \o RemoveChars(s, j + 1, set)

UpperLetters == {"A", "B", "C", "D", "E", "F", "G", "H", "I", "J", "K", "L", "M",
                 "N", "O", "P", "Q", "R", "S", "T", "U", "V", "W", "X", "Y", "Z"}
LowerLetters == {"a", "b", "c", "d", "e", "f", "g", "h", "i", "j", "k", "l", "m",
                 "n", "o", "p", "q", "r", "s", "t", "u", "v", "w", "x", "y", "z"}
Digits == {"0", "1", "2", "3", "4", "5", "6", "7", "8", "9"}
Letters == UpperLetters \cup LowerLetters

LowerOf == [A |-> "a", B |-> "b", C |-> "c", D |-> "d", E |-> "e", F |-> "f",
            G |-> "g", H |-> "h", I |-> "i", J |-> "j", K |-> "k", L |-> "l",
            M |-> "m", N |-> "n", O |-> "o", P |-> "p", Q |-> "q", R |-> "r",
            S |-> "s", T |-> "t", U |-> "u", V |-> "v", W |-> "w", X |-> "x",
            Y |-> "y", Z |-> "z"]
UpperOf == [a |-> "A", b |-> "B", c |-> "C", d |-> "D", e |-> "E", f |-> "F",
            g |-> "G", h |-> "H", i |-> "I", j |-> "J", k |-> "K", l |-> "L",
            m |-> "M", n |-> "N", o |-> "O", p |-> "P", q |-> "Q", r |-> "R",
            s |-> "S", t |-> "T", u |-> "U", v |-> "V", w |-> "W", x |-> "X",
            y |-> "Y", z |-> "Z"]

\* str.lower() and str.upper(), by halves to keep the recursion shallow
RECURSIVE Lower(_)
Lower(s) ==
    IF Len(s) = 0 THEN ""
    ELSE IF Len(s) = 1 THEN (IF s \in UpperLetters THEN LowerOf[s] ELSE s)
    ELSE LET h == Len(s) \div 2
         IN  Lower(SubSeq(s, 1, h)) \o Lower(SubSeq(s, h + 1, Len(s)))

RECURSIVE Upper(_)
Upper(s) ==
    IF Len(s) = 0 THEN ""
    ELSE IF Len(s) = 1 THEN (IF s \in LowerLetters THEN UpperOf[s] ELSE s)
    ELSE LET h == Len(s) \div 2
         IN  Upper(SubSeq(s, 1, h)) \o Upper(SubSeq(s, h + 1, Len(s)))

\* str.isupper(): a cased character, and no lower-case one
IsUpper(s) ==
    /\ \E k \in 1..Len(s) : Ch(s, k) \in UpperLetters
    /\ \A k \in 1..Len(s) : Ch(s, k) \notin LowerLetters

\* str.istitle(): upper-case letters only after uncased characters, lower-case
\* letters only after cased ones, and at least one cased character
IsTitle(s) ==
    /\ \E k \in 1..Len(s) : Ch(s, k) \in Letters
    /\ \A k \in 1..Len(s) :
         LET prevCased == k > 1 /\ Ch(s, k - 1) \in Letters IN
         /\ Ch(s, k) \in UpperLetters => ~prevCased
         /\ Ch(s, k) \in LowerLetters => prevCased

\* position of the first occurrence of sub in s at or after i (0 if none):
\* s.find(sub, i - 1) + 1
Find(s, sub, i) ==
    LET n == Len(sub)
        at == {k \in i..(Len(s) - n + 1) : SubSeq(s, k, k + n - 1) = sub}
    IN  IF at = {} THEN 0 ELSE Min(at)

\* sub in s
Contains(s, sub) == Find(s, sub, 1) # 0

\* s.startswith(prefix)
StartsWith(s, prefix) ==
    Len(prefix) <= Len(s) /\ SubSeq(s, 1, Len(prefix)) = prefix

\* s[i:].replace(old, new), left to right without overlap
RECURSIVE ReplaceFrom(_, _, _, _)
ReplaceFrom(s, i, old, new) ==
    LET j == Find(s, old, i)
    IN  IF j = 0 THEN SubSeq(s, i, Len(s))
        ELSE SubSeq(s, i, j - 1) \o new \o ReplaceFrom(s, j + Len(old), old, new)

Replace(s, old, new) == ReplaceFrom(s, 1, old, new)

\* len(s.split()): the number of maximal runs of non-white-space characters
WordCount(s) ==
    Cardinality({k \in 1..Len(s) :
        /\ Ch(s, k) \notin WhiteSpace
        /\ (k = 1 \/ Ch(s, k - 1) \in WhiteSpace)})

\* s with the characters of set removed from both ends
StripChars(s, set) ==
    LET kept == {k \in 1..Len(s) : Ch(s, k) \notin set}
    IN  IF kept = {} THEN "" ELSE SubSeq(s, Min(kept), Max(kept))

\* length of the run of characters of set that starts at i
RunLen(s, i, set) == SkipWhile(s, i, set) - i

\* [f(x) for x in seq]
StripAll(seq) == [i \in 1..Len(seq) |-> Strip(seq[i])]

-----------------------------------------------------------------------------
(* Document Extractor: app/utils/pdf_parser.py                             *)

\* re.sub(r'[ \t]+', ' ', text)
RECURSIVE CollapseBlanks(_, _)
CollapseBlanks(s, i) ==
    LET j == NextIn(s, i, {" ", "\t"})
    IN  IF j > Len(s) THEN SubSeq(s, i, Len(s))
        ELSE SubSeq(s, i, j - 1) \o " "
             \o CollapseBlanks(s, SkipWhile(s, j, {" ", "\t"}))

\* re.sub(r'\n\s*\n', '\n\n', text): a newline, the longest run of white space
\* after it that still ends in a newline, replaced by two newlines
RECURSIVE SquashNewlines(_, _)
SquashNewlines(s, i) ==
    LET j == NextIn(s, i, {"\n"})
    IN  IF j > Len(s) THEN SubSeq(s, i, Len(s))
        ELSE LET stop == SkipWhile(s, j + 1, WhiteSpace)
                 nls  == {k \in (j + 1)..(stop - 1) : Ch(s, k) = "\n"}
             IN  IF nls = {}
                 THEN SubSeq(s, i, j) \o SquashNewlines(s, j + 1)
                 ELSE SubSeq(s, i, j) \o "\n" \o SquashNewlines(s, Max(nls) + 1)

\* the control characters _clean_extracted_text removes, as far as a TLA+
\* string can hold them (form feed, \x0c)
bad_chars == {"\f"}

_clean_extracted_text(text) ==
    IF text = "" THEN ""
    ELSE LET t1 == CollapseBlanks(text, 1)
             t2 == SquashNewlines(t1, 1)
             t3 == Join(StripAll(Split(t2, "\n")), "\n")
             t4 == RemoveChars(t3, 1, bad_chars)
         IN  Strip(t4)

\* the value parse_pdf returns for a scanned document
IMAGE_ONLY_PDF == "__IMAGE_ONLY_PDF__"

\* the order in which parse_pdf tries its engines
Engines == <<"PyMuPDF", "pdfminer", "pdfplumber", "pypdf">>

FitzThreshold == 30
MinerThreshold == 50
PlumberThreshold == 50
PypdfThreshold == 20

\* if full_text and len(full_text.strip()) > N
Threshold(engine) ==
    CASE engine = "PyMuPDF"    -> FitzThreshold
      [] engine = "pdfminer"   -> MinerThreshold
      [] engine = "pdfplumber" -> PlumberThreshold
      [] engine = "pypdf"      -> PypdfThreshold

PassesAnyText(engine, full_text) == full_text # ""

Passes(engine, full_text) ==
    full_text # "" /\ Len(Strip(full_text)) > Threshold(engine)

\* the loop over doc in the PyMuPDF block: a page without text blocks is
\* skipped by `continue` before its images are looked at
RECURSIVE FitzTextParts(_)
FitzTextParts(pages) ==
    IF pages = <<>> THEN <<>>
    ELSE LET page == Head(pages) IN
         (IF page.blocks /\ page.text # "" THEN <<page.text>> ELSE <<>>)
         \o FitzTextParts(Tail(pages))

FitzHasImages(pages) ==
    \E i \in 1..Len(pages) : pages[i].blocks /\ pages[i].images

\* text_parts of the pdfplumber loop: if t: text_parts.append(t)
RECURSIVE NonEmpty(_)
NonEmpty(texts) ==
    IF texts = <<>> THEN <<>>
    ELSE (IF Head(texts) # "" THEN <<Head(texts)>> ELSE <<>>)
         \o NonEmpty(Tail(texts))

\* the pypdf loop: layout mode first, plain extraction when it gives nothing
PypdfTexts(pages) ==
    [i \in 1..Len(pages) |->
        IF pages[i].layout # "" THEN pages[i].layout ELSE pages[i].plain]

Returned(value, engine) == [kind |-> "return", value |-> value, engine |-> engine]
Raised(error) == [kind |-> "raise", value |-> error, engine |-> "none"]
NoResult == [kind |-> "none", value |-> "", engine |-> "none"]

Attempt(engine, raised, full_text) ==
    [engine |-> engine, raised |-> raised,
     text |-> IF raised THEN "" ELSE full_text,
     chars |-> IF raised THEN 0 ELSE Len(Strip(full_text))]

(* Inputs of the extractor *)
MaxPages == 2

SeqsUpTo(S, n) == UNION {[1..k -> S] : k \in 0..n}

\* page texts as PyMuPDF hands them out: nothing, white space only, a short
\* page and a full page
FitzTexts == {"", " \n", "Jo  Doe\n\n\nEng",
              "John  Doe \n\n\n Engineer\tat Acme\f"}
FitzPages ==
    [blocks : {FALSE}, text : {""}, images : BOOLEAN]
    \cup [blocks : {TRUE}, text : FitzTexts, images : BOOLEAN]
MinerTexts == {"", " \n ", Rep("a", 50), "x " \o Rep("a", 51) \o "\n"}
PlumberTexts == {"", Rep("b", 24), Rep("b", 51)}
PypdfPages == [layout : {"", Rep("c", 9)}, plain : {"", Rep("d", 21)}]
DocxParagraphs == {"", "  Jane Roe ", "Skills"}
DocxCells == {"", "Python", " SQL "}
TxtContents == {"", "plain  text\n\n\nresume"}
Extensions == {".pdf", ".docx", ".doc", ".txt", ".png"}

InitExtractor ==
    /\ pc = "start"
    /\ file \in [ext : Extensions, exists : BOOLEAN, raises : BOOLEAN,
                 pages : SeqsUpTo(FitzPages, MaxPages)]
    /\ file.ext # ".pdf" => (~file.raises /\ file.pages = <<>>)
    /\ file.raises => file.pages = <<>>
    /\ attempts = <<>>
    /\ ret = NoResult
    /\ SegmenterIdle
    /\ GapIdle
    /\ SkillsIdle
    /\ ScorerIdle
    /\ RoutesIdle
    /\ JobsIdle
    /\ AuthIdle
    /\ SkillAnalysisIdle

\* parse_resume_file: the dispatch on the extension
ParseResumeFile ==
    /\ pc = "start"
    /\ UNCHANGED <<file, attempts, outsideExtractor>>
    /\ IF ~file.exists
       THEN pc' = "done" /\ ret' = Raised("FileNotFoundError")
       ELSE CASE file.ext = ".pdf"  -> pc' = "PyMuPDF" /\ ret' = ret
              [] file.ext = ".docx" -> pc' = "docx" /\ ret' = ret
              [] file.ext = ".doc"  -> pc' = "doc" /\ ret' = ret
              [] file.ext = ".txt"  -> pc' = "txt" /\ ret' = ret
              [] OTHER -> pc' = "done" /\ ret' = Raised("ValueError")

\* one engine block of parse_pdf: accept, or fall through to `next`
EngineStep(engine, raised, full_text, next) ==
    /\ attempts' = Append(attempts, Attempt(engine, raised, full_text))
    /\ IF ~raised /\ Passes(engine, full_text)
       THEN pc' = "done" /\ ret' = Returned(_clean_extracted_text(full_text), engine)
       ELSE pc' = next /\ ret' = ret

\* 1. PyMuPDF, with the scanned-document check
TryPyMuPDF ==
    /\ pc = "PyMuPDF"
    /\ UNCHANGED <<file, outsideExtractor>>
    /\ LET full_text == Join(FitzTextParts(file.pages), "\n\n") IN
       IF ~file.raises /\ ~Passes("PyMuPDF", full_text)
          /\ Strip(full_text) = "" /\ FitzHasImages(file.pages)
       THEN /\ attempts' = Append(attempts, Attempt("PyMuPDF", FALSE, full_text))
            /\ pc' = "done"
            /\ ret' = Returned(IMAGE_ONLY_PDF, "PyMuPDF")
       ELSE EngineStep("PyMuPDF", file.raises, full_text, "pdfminer")

\* 2. pdfminer.six
TryPdfminer ==
    /\ pc = "pdfminer"
    /\ UNCHANGED <<file, outsideExtractor>>
    /\ \E raised \in BOOLEAN : \E full_text \in MinerTexts :
         /\ raised => full_text = ""
         /\ EngineStep("pdfminer", raised, full_text, "pdfplumber")

\* 3. pdfplumber
TryPdfplumber ==
    /\ pc = "pdfplumber"
    /\ UNCHANGED <<file, outsideExtractor>>
    /\ \E raised \in BOOLEAN : \E texts \in SeqsUpTo(PlumberTexts, MaxPages) :
         /\ raised => texts = <<>>
         /\ EngineStep("pdfplumber", raised, Join(NonEmpty(texts), "\n\n"), "pypdf")

\* 4. pypdf, and the return "" when it does not deliver either
TryPypdf ==
    /\ pc = "pypdf"
    /\ UNCHANGED <<file, outsideExtractor>>
    /\ \E raised \in BOOLEAN : \E pages \in SeqsUpTo(PypdfPages, MaxPages) :
         /\ raised => pages = <<>>
         /\ LET full_text == Join(NonEmpty(PypdfTexts(pages)), "\n\n") IN
            /\ attempts' = Append(attempts, Attempt("pypdf", raised, full_text))
            /\ pc' = "done"
            /\ ret' = IF ~raised /\ Passes("pypdf", full_text)
                      THEN Returned(_clean_extracted_text(full_text), "pypdf")
                      ELSE Returned("", "none")

\* parse_docx: paragraphs, then every table row as ' | '-joined cells
ParseDocx ==
    /\ pc = "docx"
    /\ UNCHANGED <<file, outsideExtractor>>
    /\ pc' = "done"
    /\ \E raised \in BOOLEAN :
       \E paragraphs \in SeqsUpTo(DocxParagraphs, MaxPages) :
       \E row \in SeqsUpTo(DocxCells, MaxPages) :
         /\ raised => (paragraphs = <<>> /\ row = <<>>)
         /\ LET row_text == NonEmpty(StripAll(row))
                text_parts == NonEmpty(StripAll(paragraphs))
                              \o (IF row_text # <<>> THEN <<Join(row_text, " | ")>>
                                  ELSE <<>>)
                full_text == Join(text_parts, "\n")
            IN /\ attempts' = Append(attempts, Attempt("python-docx", raised, full_text))
               /\ ret' = IF raised THEN Raised("ValueError")
                         ELSE Returned(_clean_extracted_text(full_text), "python-docx")

\* parse_doc: antiword; a non-zero exit status or a failure to run it raise
ParseDoc ==
    /\ pc = "doc"
    /\ UNCHANGED <<file, outsideExtractor>>
    /\ pc' = "done"
    /\ \E raised \in BOOLEAN : \E stdout \in TxtContents :
         /\ raised => stdout = ""
         /\ attempts' = Append(attempts, Attempt("antiword", raised, stdout))
         /\ ret' = IF raised THEN Raised("ValueError")
                   ELSE Returned(_clean_extracted_text(stdout), "antiword")

\* parse_txt: the encodings in order; an empty read goes on to the next one
encodings == <<"utf-8", "latin-1", "cp1252", "utf-16">>

ParseTxt ==
    /\ pc = "txt"
    /\ UNCHANGED <<file, outsideExtractor>>
    /\ LET enc == encodings[Len(attempts) + 1] IN
       \E raised \in BOOLEAN : \E content \in TxtContents :
         /\ raised => content = ""
         /\ attempts' = Append(attempts, Attempt(enc, raised, content))
         /\ IF ~raised /\ content # ""
            THEN pc' = "done" /\ ret' = Returned(_clean_extracted_text(content), enc)
            ELSE IF Len(attempts) + 1 < Len(encodings)
                 THEN pc' = "txt" /\ ret' = ret
                 ELSE pc' = "done" /\ ret' = Raised("ValueError")

NextExtractor ==
    \/ ParseResumeFile
    \/ TryPyMuPDF
    \/ TryPdfminer
    \/ TryPdfplumber
    \/ TryPypdf
    \/ ParseDocx
    \/ ParseDoc
    \/ ParseTxt

SpecExtractor == InitExtractor /\ [][NextExtractor]_vars

-----------------------------------------------------------------------------
(* Properties of the extractor                                             *)

PdfEngines == {Engines[i] : i \in 1..Len(Engines)}
EngineIndex(e) == CHOOSE i \in 1..Len(Engines) : Engines[i] = e

\* what an attempt recorded in the history delivered, against its threshold
AttemptOk(a) == ~a.raised /\ a.text # "" /\ a.chars > Threshold(a.engine)

ParsingPdf == file.ext = ".pdf" /\ file.exists

ImageOnlyReturned ==
    pc = "done" /\ ret.kind = "return" /\ ret.value = IMAGE_ONLY_PDF

\* C3: unless the document is classified image-only, parse_pdf attempts the
\* engines in the order PyMuPDF, pdfminer, pdfplumber, pypdf; an engine that
\* raised or stayed below its threshold is followed by the next engine; the
\* text returned is the cleaned text of the first engine that passed its
\* threshold, and nothing is attempted after it.
C3_EngineOrder ==
    ParsingPdf =>
      /\ Len(attempts) <= Len(Engines)
      /\ \A i \in 1..Len(attempts) : attempts[i].engine = Engines[i]
      /\ \A i \in 1..(Len(attempts) - 1) : ~AttemptOk(attempts[i])
      /\ pc \in PdfEngines =>
            /\ Len(attempts) = EngineIndex(pc) - 1
            /\ \A i \in 1..Len(attempts) : ~AttemptOk(attempts[i])
      /\ (pc = "done" /\ ~ImageOnlyReturned) =>
            LET last == attempts[Len(attempts)] IN
            IF AttemptOk(last)
            THEN ret = Returned(_clean_extracted_text(last.text), last.engine)
            ELSE Len(attempts) = Len(Engines) /\ ret.engine = "none"

\* C3 witness: pdfplumber is accepted after PyMuPDF raised and pdfminer
\* stayed below its threshold
C3_Witness ==
    /\ ParsingPdf /\ pc = "done" /\ ret.engine = "pdfplumber"
    /\ attempts[1].raised
    /\ ~attempts[2].raised /\ attempts[2].chars > 0

\* C4: a PDF from which every engine extracts zero characters and which has
\* an embedded image on some page ends in the image-only outcome.
C4_ImageOnlyOutcome ==
    ( /\ ParsingPdf /\ pc = "done"
      /\ \E i \in 1..Len(file.pages) : file.pages[i].images
      /\ \A i \in 1..Len(attempts) : ~attempts[i].raised /\ attempts[i].chars = 0 )
    => ImageOnlyReturned

SupportedExtensions == {".pdf", ".docx", ".doc", ".txt"}

\* an attempt that gave the caller something to work with: a PDF engine above
\* its threshold, a .docx or .doc read without error, a non-empty text read
AcceptableAttempt(a) ==
    IF a.engine \in PdfEngines THEN AttemptOk(a)
    ELSE IF a.engine \in {"python-docx", "antiword"} THEN ~a.raised
    ELSE ~a.raised /\ a.text # ""

\* C5: for a supported format, when every engine raised or was exhausted
\* without an acceptable result and the document is not image-only,
\* extraction ends in an error, never in a returned text.
C5_ExtractionFailed ==
    ( /\ pc = "done" /\ file.exists /\ file.ext \in SupportedExtensions
      /\ ~ImageOnlyReturned
      /\ \A i \in 1..Len(attempts) : ~AcceptableAttempt(attempts[i]) )
    => ret.kind = "raise"

-----------------------------------------------------------------------------
(* Section Segmenter and Resume Reconstructor:                             *)
(* app/services/ats_converter.py                                           *)

None == "None"

\* ATSConverter.section_keywords, in the order the dict is iterated
section_keywords == <<
    [section |-> "contact", keywords |-> <<"contact", "personal information",
        "contact info", "personal profile", "contact details">>],
    [section |-> "summary", keywords |-> <<"summary", "objective", "profile",
        "professional summary", "background", "about me", "executive summary",
        "career objective">>],
    [section |-> "experience", keywords |-> <<"experience", "work experience",
        "employment", "work history", "professional experience",
        "career history", "professional background", "employment history",
        "work record">>],
    [section |-> "education", keywords |-> <<"education", "academic background",
        "qualifications", "academic history", "studies",
        "educational background", "academic profile">>],
    [section |-> "skills", keywords |-> <<"skills", "technical skills",
        "competencies", "abilities", "expertise", "specializations",
        "technologies", "tools", "core competencies", "professional skills">>],
    [section |-> "certifications", keywords |-> <<"certifications",
        "certificates", "licenses", "credentials", "courses",
        "professional certifications">>],
    [section |-> "projects", keywords |-> <<"projects", "personal projects",
        "portfolio", "recent projects", "selected projects",
        "academic projects">>],
    [section |-> "awards", keywords |-> <<"awards", "honors", "achievements",
        "recognition", "accomplishments", "honors & awards">>] >>

\* the characters of the class [-=#\s] of the header pattern (its bullet
\* never reaches it: _clean_text has turned bullets into dashes)
HeaderSymbols == {"-", "=", "#"} \cup WhiteSpace

MaxHeaderLen == 60
MaxHeaderWords == 6
MaxTitleWords == 4

\* _identify_section.  The pattern ^[-=#\s]*keyword[-=#\s]*$ is matched by
\* stripping the symbols from both ends: every keyword starts and ends with
\* a letter.
_identify_section(line0, is_protected) ==
    LET line == Strip(line0)
        words == WordCount(line)
        is_title_like == \/ IsUpper(line)
                         \/ IsTitle(line)
                         \/ IsTitle(Replace(line, "&", ""))
        normalized_line == Replace(Replace(Lower(line), "&", "and"), "/", " ")
        core == Lower(StripChars(line, HeaderSymbols))
        honoured == ~(is_protected /\ ~IsUpper(line))
        Hit(keyword) ==
            \/ keyword = Strip(normalized_line)
            \/ core = keyword /\ honoured
            \/ /\ is_title_like
               /\ words <= MaxTitleWords
               /\ Contains(normalized_line, keyword)
               /\ honoured
        hits == {i \in 1..Len(section_keywords) :
                   \E k \in 1..Len(section_keywords[i].keywords) :
                       Hit(section_keywords[i].keywords[k])}
    IN  IF line = "" \/ Len(line) > MaxHeaderLen THEN None
        ELSE IF words > MaxHeaderWords THEN None
        ELSE IF hits = {} THEN None
        ELSE section_keywords[Min(hits)].section

\* sub occurs in s exactly at position i
StartsAt(s, i, sub) ==
    i >= 1 /\ i + Len(sub) - 1 <= Len(s) /\ SubSeq(s, i, i + Len(sub) - 1) = sub

\* the characters i..j of s exist and all lie in set
AllIn(s, i, j, set) ==
    i >= 1 /\ j <= Len(s) /\ \A k \in i..j : Ch(s, k) \in set

\* _is_garbage_line
_is_garbage_line(line) ==
    LET line_lower == Lower(line)
        \* page \d+ of \d+
        page_of == \E i \in 1..Len(line_lower) :
            /\ StartsAt(line_lower, i, "page ")
            /\ LET d == RunLen(line_lower, i + 5, Digits) IN
               /\ d >= 1
               /\ StartsAt(line_lower, i + 5 + d, " of ")
               /\ RunLen(line_lower, i + 9 + d, Digits) >= 1
        \* ^\d+\s*/\s*\d+$
        fraction ==
            LET d1 == RunLen(line_lower, 1, Digits)
                slash == SkipWhile(line_lower, 1 + d1, WhiteSpace)
                num == SkipWhile(line_lower, slash + 1, WhiteSpace)
            IN  /\ d1 >= 1
                /\ StartsAt(line_lower, slash, "/")
                /\ RunLen(line_lower, num, Digits) >= 1
                /\ SkipWhile(line_lower, num, Digits) = Len(line_lower) + 1
        \* \d{4}-\d{2}-\d{2}
        timestamp == \E i \in 1..Len(line_lower) :
            /\ AllIn(line_lower, i, i + 3, Digits)
            /\ StartsAt(line_lower, i + 4, "-")
            /\ AllIn(line_lower, i + 5, i + 6, Digits)
            /\ StartsAt(line_lower, i + 7, "-")
            /\ AllIn(line_lower, i + 8, i + 9, Digits)
    IN  \/ page_of \/ fraction
        \/ timestamp \/ StartsWith(line, "/") \/ StartsWith(line, "C:\\")
        \/ Len(Strip(line)) < 2

\* re.sub(r'\n\s*\n\s*\n+', '\n\n', text): a run of white space holding three
\* newlines or more, from its first newline to its last
RECURSIVE SquashBlankLines(_, _)
SquashBlankLines(s, i) ==
    LET j == NextIn(s, i, {"\n"})
    IN  IF j > Len(s) THEN SubSeq(s, i, Len(s))
        ELSE LET stop == SkipWhile(s, j, WhiteSpace)
                 nls  == {k \in j..(stop - 1) : Ch(s, k) = "\n"}
             IN  IF Cardinality(nls) >= 3
                 THEN SubSeq(s, i, j - 1) \o "\n\n"
                      \o SquashBlankLines(s, Max(nls) + 1)
                 ELSE SubSeq(s, i, stop - 1) \o SquashBlankLines(s, stop)

\* _clean_text (its bullet glyphs are outside the character set of the model)
_clean_text(text) ==
    LET t1 == CollapseBlanks(text, 1)
        t2 == SquashBlankLines(t1, 1)
        t3 == Replace(Replace(t2, "\r\n", "\n"), "\r", "\n")
    IN  Strip(t3)

(* Python dict, in insertion order: a sequence of (key, content) entries *)
Keys(d) == {d[i].key : i \in 1..Len(d)}
Has(d, k) == k \in Keys(d)
Get(d, k) == d[CHOOSE i \in 1..Len(d) : d[i].key = k].content
Put(d, k, v) ==
    IF Has(d, k)
    THEN [i \in 1..Len(d) |->
             IF d[i].key = k THEN [key |-> k, content |-> v] ELSE d[i]]
    ELSE Append(d, [key |-> k, content |-> v])

\* d.get(k, '')
GetOr(d, k) == IF Has(d, k) THEN Get(d, k) ELSE ""

\* [a-zA-Z0-9._%+-] and [a-zA-Z0-9.-] of the e-mail pattern
LocalChars == Letters \cup Digits \cup {".", "_", "%", "+", "-"}
DomainChars == Letters \cup Digits \cup {".", "-"}

\* [a-zA-Z0-9._%+-]+@[a-zA-Z0-9.-]+\.[a-zA-Z]{2,} matched at position i: the
\* position of its last character, 0 when it does not match there
EmailEnd(s, i) ==
    LET at == SkipWhile(s, i, LocalChars)
        stop == SkipWhile(s, at + 1, DomainChars)
        dots == {q \in (at + 2)..(stop - 1) :
                    Ch(s, q) = "." /\ RunLen(s, q + 1, Letters) >= 2}
    IN  IF at = i \/ ~StartsAt(s, at, "@") \/ dots = {} THEN 0
        ELSE Max(dots) + RunLen(s, Max(dots) + 1, Letters)

\* re.search(email_pattern, line)
HasEmail(s) == Contains(s, "@") /\ \E k \in 1..Len(s) : EmailEnd(s, k) # 0

\* re.findall(email_pattern, text[i:])
RECURSIVE FindallEmail(_, _)
FindallEmail(s, i) ==
    IF Find(s, "@", i) = 0 THEN <<>>
    ELSE LET starts == {k \in i..Len(s) : EmailEnd(s, k) # 0}
         IN  IF starts = {} THEN <<>>
             ELSE <<SubSeq(s, Min(starts), EmailEnd(s, Min(starts)))>>
                  \o FindallEmail(s, EmailEnd(s, Min(starts)) + 1)

\* position after an optional character of set at position i
Opt(s, i, set) == IF i >= 1 /\ i <= Len(s) /\ Ch(s, i) \in set THEN i + 1 ELSE i

PhoneSep == {"-", "."} \cup WhiteSpace

\* \(?\d{3}\)?[-.\s]?\d{3}[-.\s]?\d{4,} matched at position i: the position
\* of its last character, 0 when it does not match there
PhoneTailEnd(s, i) ==
    LET a == Opt(s, i, {"("})
        b == Opt(s, a + 3, {")"})
        c == Opt(s, b, PhoneSep)
        d == Opt(s, c + 3, PhoneSep)
    IN  IF /\ AllIn(s, a, a + 2, Digits)
           /\ AllIn(s, c, c + 2, Digits)
           /\ RunLen(s, d, Digits) >= 4
        THEN d + RunLen(s, d, Digits) - 1
        ELSE 0

\* the whole phone pattern at position i: the optional group
\* (\+?\d{1,3}[-.\s]?) takes as many digits as still let the rest match
PhoneMatch(s, i) ==
    LET p == Opt(s, i, {"+"})
        After(k) == Opt(s, p + k, PhoneSep)
        ks == {k \in 1..3 : AllIn(s, p, p + k - 1, Digits)
                             /\ PhoneTailEnd(s, After(k)) # 0}
    IN  IF ks # {}
        THEN [end |-> PhoneTailEnd(s, After(Max(ks))),
              group |-> SubSeq(s, i, After(Max(ks)) - 1)]
        ELSE [end |-> PhoneTailEnd(s, i), group |-> ""]

\* re.findall(phone_pattern, text[i:]): the pattern has one group, so the
\* list holds what the group matched, not the phone numbers
RECURSIVE FindallPhone(_, _)
FindallPhone(s, i) ==
    IF NextIn(s, i, Digits) > Len(s) THEN <<>>
    ELSE LET starts == {k \in i..Len(s) : PhoneMatch(s, k).end # 0}
         IN  IF starts = {} THEN <<>>
             ELSE <<PhoneMatch(s, Min(starts)).group>>
                  \o FindallPhone(s, PhoneMatch(s, Min(starts)).end + 1)

\* re.findall of a literal prefix followed by [a-zA-Z0-9-]+
RECURSIVE FindallProfile(_, _, _)
FindallProfile(s, prefix, i) ==
    LET j == Find(s, prefix, i)
        r == RunLen(s, j + Len(prefix), Letters \cup Digits \cup {"-"})
    IN  IF j = 0 THEN <<>>
        ELSE IF r = 0 THEN FindallProfile(s, prefix, j + 1)
        ELSE <<SubSeq(s, j, j + Len(prefix) + r - 1)>>
             \o FindallProfile(s, prefix, j + Len(prefix) + r)

\* [l.strip() for l in lines if l.strip()]
RECURSIVE NonBlankLines(_)
NonBlankLines(lines) ==
    IF lines = <<>> THEN <<>>
    ELSE (IF Strip(Head(lines)) # "" THEN <<Strip(Head(lines))>> ELSE <<>>)
         \o NonBlankLines(Tail(lines))

Range(seq) == {seq[i] : i \in 1..Len(seq)}

\* _extract_contact_info
_extract_contact_info(text) ==
    LET emails == FindallEmail(text, 1)
        phones == FindallPhone(text, 1)
        linkedin == FindallProfile(text, "linkedin.com/in/", 1)
        github == FindallProfile(text, "github.com/", 1)
        lines == NonBlankLines(Split(text, "\n"))
        IsName(line) == /\ WordCount(line) <= 4
                        /\ _identify_section(line, FALSE) = None
                        /\ ~HasEmail(line)
        name == IF Len(lines) >= 1 /\ IsName(lines[1]) THEN lines[1]
                ELSE IF Len(lines) >= 2 /\ IsName(lines[2]) THEN lines[2]
                ELSE IF Len(lines) >= 3 /\ IsName(lines[3]) THEN lines[3]
                ELSE ""
    IN  [name |-> name,
         emails |-> Range(emails), phones |-> Range(phones),
         linkedin |-> Range(linkedin), github |-> Range(github),
         raw |-> Join(<<name>> \o emails \o phones \o linkedin \o github, "\n")]

blocked_keywords == <<"experience", "education", "skills", "summary",
                      "university", "college", "professor">>

MaxContactLine == 120
MaxBlockedLine == 20

\* the loop of _format_contact_section: the lines kept, in order
RECURSIVE CleanContactLines(_, _)
CleanContactLines(lines, clean_lines) ==
    IF lines = <<>> THEN clean_lines
    ELSE LET l == Strip(Head(lines))
             seen == {Lower(clean_lines[i]) : i \in 1..Len(clean_lines)}
             skip == \/ l = "" \/ Lower(l) \in seen
                     \/ Len(l) > MaxContactLine
                     \/ _identify_section(l, FALSE) # None
                     \/ /\ \E b \in 1..Len(blocked_keywords) :
                               Contains(Lower(l), blocked_keywords[b])
                        /\ Len(l) > MaxBlockedLine
         IN  CleanContactLines(Tail(lines),
                 IF skip THEN clean_lines ELSE Append(clean_lines, l))

\* list.remove(x): the list without the first occurrence of x
RemoveFirst(seq, x) ==
    LET at == {i \in 1..Len(seq) : seq[i] = x}
    IN  IF at = {} THEN seq
        ELSE SubSeq(seq, 1, Min(at) - 1) \o SubSeq(seq, Min(at) + 1, Len(seq))

\* _format_contact_section
_format_contact_section(raw_content, extracted) ==
    LET clean_lines == CleanContactLines(Split(raw_content, "\n"), <<>>)
        named ==
            IF extracted.name # "" /\ clean_lines # <<>>
               /\ clean_lines[1] # extracted.name
            THEN <<extracted.name>> \o RemoveFirst(clean_lines, extracted.name)
            ELSE clean_lines
    IN  Strip(Join(named, "\n"))

ProtectedZone == 5

\* the state of the line walk of _extract_sections before its first line
StartWalk(text) ==
    LET contact_info == _extract_contact_info(text) IN
    [contact_info |-> contact_info,
     sections |-> <<[key |-> "contact", content |-> contact_info.raw]>>,
     current_section |-> "contact",
     current_content |-> <<>>,
     non_empty_line_count |-> 0]

\* "Save previous section", when a header is met
SavePrevious(w) ==
    IF w.current_content = <<>> THEN w.sections
    ELSE LET content_text == Strip(Join(w.current_content, "\n")) IN
         IF w.current_section = "contact"
         THEN Put(w.sections, "contact",
                  GetOr(w.sections, "contact") \o "\n" \o content_text)
         ELSE Put(w.sections, w.current_section, content_text)

\* the section a line of the walk opens, None for a content line
HeaderOf(line_strip, count) ==
    LET section_type == _identify_section(line_strip, count < ProtectedZone)
    IN  IF section_type # None /\ count = 1 THEN None ELSE section_type

\* the iteration with the header line kept as the first line of its section
WalkLineKeepingHeader(w, line) ==
    LET line_strip == Strip(line) IN
    IF line_strip = "" \/ _is_garbage_line(line_strip) THEN w
    ELSE LET count == w.non_empty_line_count + 1
             section_type == HeaderOf(line_strip, count)
         IN  IF section_type # None
             THEN [contact_info |-> w.contact_info,
                   sections |-> SavePrevious(w),
                   current_section |-> section_type,
                   current_content |-> <<line_strip>>,
                   non_empty_line_count |-> count]
             ELSE [w EXCEPT !.current_content = Append(@, line_strip),
                            !.non_empty_line_count = count]

\* one iteration of `for line in lines`
WalkLine(w, line) ==
    LET line_strip == Strip(line) IN
    IF line_strip = "" \/ _is_garbage_line(line_strip) THEN w
    ELSE LET count == w.non_empty_line_count + 1
             section_type == HeaderOf(line_strip, count)
         IN  IF section_type # None
             THEN [contact_info |-> w.contact_info,
                   sections |-> SavePrevious(w),
                   current_section |-> section_type,
                   current_content |-> <<>>,
                   non_empty_line_count |-> count]
             ELSE [w EXCEPT !.current_content = Append(@, line_strip),
                            !.non_empty_line_count = count]

\* "Save last section" and the post-processing of the contact block
FinishWalk(w) ==
    LET saved == IF w.current_content = <<>> THEN w.sections
                 ELSE Put(w.sections, w.current_section,
                          Strip(Join(w.current_content, "\n")))
    IN  IF Has(saved, "contact")
        THEN Put(saved, "contact",
                 _format_contact_section(Get(saved, "contact"), w.contact_info))
        ELSE saved

RECURSIVE WalkLines(_, _)
WalkLines(w, lines) ==
    IF lines = <<>> THEN w ELSE WalkLines(WalkLine(w, Head(lines)), Tail(lines))

\* _extract_sections
_extract_sections(text) ==
    FinishWalk(WalkLines(StartWalk(text), Split(text, "\n")))

\* the keywords _integrate_keywords appends to existing_skills, in order
RECURSIVE AppendKeywords(_, _)
AppendKeywords(existing_skills, keywords) ==
    IF keywords = <<>> THEN existing_skills
    ELSE AppendKeywords(
             IF ~Contains(Lower(existing_skills), Lower(Head(keywords)))
             THEN existing_skills \o "\n- " \o Head(keywords)
             ELSE existing_skills,
             Tail(keywords))

\* _integrate_keywords
_integrate_keywords(sections, keywords) ==
    IF Has(sections, "skills")
    THEN Put(sections, "skills", AppendKeywords(Get(sections, "skills"), keywords))
    ELSE Put(sections, "skills",
             Join([i \in 1..Len(keywords) |-> "- " \o keywords[i]], "\n"))

section_order == <<"contact", "summary", "experience", "education",
                   "skills", "certifications", "projects", "awards">>

\* resume_parts of _combine_sections_text
RECURSIVE ResumeParts(_, _)
ResumeParts(sections, order) ==
    IF order = <<>> THEN <<>>
    ELSE (IF Has(sections, Head(order))
          THEN LET header == Upper(Head(order)) IN
               <<header \o "\n" \o Rep("=", Len(header)) \o "\n"
                 \o Get(sections, Head(order))>>
          ELSE <<>>)
         \o ResumeParts(sections, Tail(order))

\* the parts in the order the sections were put into the dict
CombineAsFound(sections) ==
    Strip(Join([i \in 1..Len(sections) |->
                   Upper(sections[i].key) \o "\n"
                   \o Rep("=", Len(sections[i].key)) \o "\n"
                   \o sections[i].content], "\n\n"))

\* _combine_sections_text
_combine_sections_text(sections) ==
    Strip(Join(ResumeParts(sections, section_order), "\n\n"))

\* convert_resume: `if job_keywords` skips None and the empty list alike; the
\* locals extracted and sections are bound once each
convert_resume(resume_text, job_keywords) ==
    CHOOSE result \in
        {[ats_resume |-> _combine_sections_text(sections),
          sections |-> sections] :
            sections \in
                {IF job_keywords # <<>>
                 THEN _integrate_keywords(extracted, job_keywords)
                 ELSE extracted :
                     extracted \in
                         {_extract_sections(_clean_text(resume_text))}}} :
        TRUE

\* ---- convert_resume and download_ats_docx as a state machine ----

MaxBody == 4

FirstLines == {"Jane Roe", "SKILLS"}

BodyLines == {"SKILLS", "My Projects", "built APIs", "Education"}

KeywordLists == {<<>>, <<"Docker">>, <<"Docker", "Docker">>, <<"API">>}

ResumeTexts ==
    {Join(<<first>> \o body, "\n") :
        first \in FirstLines, body \in SeqsUpTo(BodyLines, MaxBody)}

InitSegmenter ==
    /\ segPc = "convert"
    /\ segText \in ResumeTexts
    /\ segKeywords \in KeywordLists
    /\ segLines = <<>>
    /\ segWalk = <<>>
    /\ segFollowed = <<>>
    /\ segSections = <<>>
    /\ segAts = ""
    /\ segAgain = <<>>
    /\ ExtractorIdle
    /\ GapIdle
    /\ SkillsIdle
    /\ ScorerIdle
    /\ RoutesIdle
    /\ JobsIdle
    /\ AuthIdle
    /\ SkillAnalysisIdle

\* convert_resume up to the loop of _extract_sections
CleanText ==
    /\ segPc = "convert"
    /\ LET cleaned_text == _clean_text(segText) IN
       /\ segWalk' = StartWalk(cleaned_text)
       /\ segLines' = Split(cleaned_text, "\n")
    /\ segPc' = "walk"
    /\ UNCHANGED <<segText, segKeywords, segFollowed, segSections, segAts,
                   segAgain, outsideSegmenter>>

\* what one iteration of the loop did with its line
Followed(before, after, line) ==
    [line |-> Strip(line),
     section |-> after.current_section,
     kind |-> IF after.non_empty_line_count = before.non_empty_line_count
              THEN "skipped"
              ELSE IF after.current_content = <<>> THEN "header"
              ELSE "content"]

\* one iteration of `for line in lines`
WalkStep ==
    /\ segPc = "walk"
    /\ segLines # <<>>
    /\ segWalk' = WalkLine(segWalk, Head(segLines))
    /\ segLines' = Tail(segLines)
    /\ segFollowed' = Append(segFollowed, Followed(segWalk, segWalk', Head(segLines)))
    /\ UNCHANGED <<segPc, segText, segKeywords, segSections, segAts, segAgain,
                   outsideSegmenter>>

\* the end of _extract_sections
SaveLast ==
    /\ segPc = "walk"
    /\ segLines = <<>>
    /\ segSections' = FinishWalk(segWalk)
    /\ segPc' = "segmented"
    /\ UNCHANGED <<segText, segKeywords, segLines, segWalk, segFollowed, segAts,
                   segAgain, outsideSegmenter>>

\* the rest of convert_resume: keyword integration and reconstruction
Rebuild ==
    /\ segPc = "segmented"
    /\ LET sections == IF segKeywords # <<>>
                       THEN _integrate_keywords(segSections, segKeywords)
                       ELSE segSections
       IN  /\ segSections' = sections
           /\ segAts' = _combine_sections_text(sections)
    /\ segPc' = "converted"
    /\ UNCHANGED <<segText, segKeywords, segLines, segWalk, segFollowed,
                   segAgain, outsideSegmenter>>

\* download_ats_docx called with ats_resume and no sections
DownloadAtsDocx ==
    /\ segPc = "converted"
    /\ segAgain' = _extract_sections(segAts)
    /\ segPc' = "downloaded"
    /\ UNCHANGED <<segText, segKeywords, segLines, segWalk, segFollowed,
                   segSections, segAts, outsideSegmenter>>

NextSegmenter ==
    \/ CleanText
    \/ WalkStep
    \/ SaveLast
    \/ Rebuild
    \/ DownloadAtsDocx

SpecSegmenter == InitSegmenter /\ [][NextSegmenter]_vars

\* ---- properties of the segmenter and the reconstructor ----

\* the positions of the history where the walk did `kind` for section k
FollowedAs(kind, k) ==
    {i \in DOMAIN segFollowed :
        segFollowed[i].kind = kind /\ segFollowed[i].section = k}

\* C6: when the header of a section was recognized more than once, the block
\* stored under its key contains every content line that followed any of
\* the occurrences
C6_RepeatedHeaderMerges ==
    segPc = "segmented" =>
        \A k \in Keys(segSections) :
            Cardinality(FollowedAs("header", k)) > 1 =>
                \A i \in FollowedAs("content", k) :
                    Contains(Get(segSections, k), segFollowed[i].line)

\* C7: segmenting the reconstructed text again yields exactly the section
\* keys of the map the text was built from
C7_SameSectionKeys ==
    segPc = "downloaded" => Keys(segAgain) = Keys(segSections)

\* ---- gap analysis (app/services/missing_skills.py) ----

\* skills_database, the categories in the order of the dict
skills_database == <<
    [category |-> "programming",
     skills |-> <<"Python", "JavaScript", "TypeScript", "Java", "C++",
                 "C#", "Go", "Rust", "Ruby", "PHP", "Swift",
                 "Kotlin", "Scala", "R", "MATLAB", "Perl", "Haskell",
                 "Lua", "Dart", "Objective-C", "Shell", "Bash",
                 "PowerShell", "SQL", "NoSQL">>],
    [category |-> "frameworks",
     skills |-> <<"React", "React.js", "Angular", "Vue.js", "Vue",
                 "Next.js", "Node.js", "Express", "Express.js",
                 "Django", "Flask", "FastAPI", "Spring Boot",
                 "Spring", "ASP.NET", ".NET Core", "Ruby on Rails",
                 "Rails", "Laravel", "Symfony", "jQuery",
                 "Bootstrap", "Tailwind CSS", "Svelte", "Nuxt.js",
                 "Gatsby", "Redux", "MobX", "Vuex", "GraphQL",
                 "REST API", "RESTful">>],
    [category |-> "databases",
     skills |-> <<"MongoDB", "PostgreSQL", "MySQL", "SQLite",
                 "Oracle", "SQL Server", "Redis", "Elasticsearch",
                 "Cassandra", "DynamoDB", "Firebase", "Neo4j",
                 "MariaDB", "CouchDB", "InfluxDB", "TimescaleDB",
                 "Supabase", "PlanetScale">>],
    [category |-> "cloud_devops",
     skills |-> <<"AWS", "Amazon Web Services", "Azure",
                 "Google Cloud", "GCP", "Docker", "Kubernetes",
                 "K8s", "Terraform", "Ansible", "Jenkins",
                 "CircleCI", "GitHub Actions", "GitLab CI",
                 "Travis CI", "Heroku", "Vercel", "Netlify",
                 "DigitalOcean", "CloudFormation", "Pulumi", "Helm",
                 "ArgoCD", "Istio", "Prometheus", "Grafana",
                 "ELK Stack", "Datadog", "New Relic", "CI/CD",
                 "DevOps", "SRE", "Infrastructure as Code", "IaC">>],
    [category |-> "data_science",
     skills |-> <<"Machine Learning", "Deep Learning", "TensorFlow",
                 "PyTorch", "Keras", "Scikit-learn", "Pandas",
                 "NumPy", "Matplotlib", "Seaborn", "Jupyter",
                 "Apache Spark", "Hadoop", "NLP",
                 "Natural Language Processing", "Computer Vision",
                 "OpenCV", "Neural Networks", "Data Mining",
                 "Data Analysis", "Statistics", "A/B Testing",
                 "Feature Engineering", "MLOps", "Model Deployment",
                 "Hugging Face", "LLM", "GPT", "BERT",
                 "Transformers", "RAG">>],
    [category |-> "tools",
     skills |-> <<"Git", "GitHub", "GitLab", "Bitbucket", "JIRA",
                 "Confluence", "Trello", "Asana", "Slack", "VS Code",
                 "IntelliJ", "PyCharm", "Postman", "Insomnia",
                 "Figma", "Sketch", "Adobe XD", "Linux", "Unix",
                 "macOS", "Windows Server", "Nginx", "Apache",
                 "Load Balancing", "CDN">>],
    [category |-> "security",
     skills |-> <<"OAuth", "JWT", "Authentication", "Authorization",
                 "OWASP", "Penetration Testing", "Security Audit",
                 "Encryption", "SSL/TLS", "HTTPS", "Firewall", "IAM",
                 "SSO", "SAML", "LDAP">>],
    [category |-> "testing",
     skills |-> <<"Unit Testing", "Integration Testing",
                 "E2E Testing", "Jest", "Mocha", "Chai", "Pytest",
                 "JUnit", "Selenium", "Cypress", "Playwright",
                 "TestNG", "TDD", "BDD", "Test Automation", "QA",
                 "Quality Assurance">>],
    [category |-> "methodologies",
     skills |-> <<"Agile", "Scrum", "Kanban", "Waterfall", "Lean",
                 "SAFe", "XP", "Extreme Programming",
                 "Sprint Planning", "Code Review",
                 "Pair Programming", "Mob Programming">>],
    [category |-> "soft_skills",
     skills |-> <<"Leadership", "Communication", "Problem Solving",
                 "Team Collaboration", "Teamwork", "Time Management",
                 "Critical Thinking", "Adaptability", "Creativity",
                 "Project Management", "Mentoring", "Coaching",
                 "Presentation", "Public Speaking", "Negotiation",
                 "Conflict Resolution", "Decision Making",
                 "Strategic Thinking", "Emotional Intelligence",
                 "Customer Focus", "Innovation">>]
>>

required_keywords ==
    <<"required", "must have", "must-have", "essential", "mandatory",
      "necessary", "need to have", "requirements", "qualifications",
      "you have", "you bring">>

preferred_keywords ==
    <<"preferred", "nice to have", "nice-to-have", "bonus", "plus",
      "advantage", "ideally", "optional", "desired", "good to have",
      "beneficial">>

\* every skill of the database
AllSkills ==
    UNION {Range(skills_database[i].skills) : i \in 1..Len(skills_database)}

\* skills_database.get(category, [])
SkillsIn(category) ==
    IF \E i \in 1..Len(skills_database) : skills_database[i].category = category
    THEN skills_database[CHOOSE i \in 1..Len(skills_database) :
                            skills_database[i].category = category].skills
    ELSE <<>>

\* skill.lower() of every skill of the database
SkillLower == [skill \in AllSkills |-> Lower(skill)]

\* the characters of the class [\s,;:()\[\]./]
Boundary == WhiteSpace \cup {",", ";", ":", "(", ")", "[", "]", ".", "/"}

\* where the leading (?:^|[\s,;:()\[\]./]) of the pattern lets the skill start
SkillStarts(text_lower) ==
    {1} \cup {k + 1 : k \in {j \in 1..Len(text_lower) :
                               Ch(text_lower, j) \in Boundary}}

\* the skill at position p, whatever follows it
MatchesAtStart(text_lower, skill_lower, p) ==
    LET end == p + Len(skill_lower) - 1 IN
    /\ end <= Len(text_lower)
    /\ SubSeq(text_lower, p, end) = skill_lower

\* the skill at position p, followed by (?:[\s,;:()\[\]./]|$)
MatchesAt(text_lower, skill_lower, p) ==
    LET end == p + Len(skill_lower) - 1 IN
    /\ end <= Len(text_lower)
    /\ SubSeq(text_lower, p, end) = skill_lower
    /\ (end = Len(text_lower) \/ Ch(text_lower, end + 1) \in Boundary)

\* found_skills of _extract_skills_from_text
_extract_skills_from_text(text) ==
    LET text_lower == Lower(text)
        starts == SkillStarts(text_lower)
    IN  {skill \in AllSkills :
            \E p \in starts : MatchesAt(text_lower, SkillLower[skill], p)}

\* list(found_skills): a set is listed in an order the code does not fix
RECURSIVE Orderings(_)
Orderings(S) ==
    IF S = {} THEN {<<>>}
    ELSE UNION {{<<x>> \o rest : rest \in Orderings(S \ {x})} : x \in S}

\* text_lower.find(keyword) of the keywords found, as 0-based positions
KeywordPositions(text_lower, keywords) ==
    {Find(text_lower, keywords[i], 1) - 1 : i \in 1..Len(keywords)} \ {-1}

Abs(n) == IF n < 0 THEN -n ELSE n

Window == 300

\* the loop over a keyword list: some keyword found in the text lies less
\* than Window characters from re.search(skill_pattern, text_lower)
NearKeyword(text_lower, skill_lower, keyword_positions) ==
    LET skill_match == Find(text_lower, skill_lower, 1) - 1 IN
    /\ skill_match # -1
    /\ \E keyword_pos \in keyword_positions :
           Abs(skill_match - keyword_pos) < Window

\* the list one skill is appended to
Importance(skill, text_lower, required_positions, preferred_positions) ==
    IF skill \in Range(SkillsIn("soft_skills")) THEN "soft"
    ELSE IF NearKeyword(text_lower, Lower(skill), required_positions)
         THEN "critical"
    ELSE IF NearKeyword(text_lower, Lower(skill), preferred_positions)
         THEN "recommended"
    ELSE "critical"

\* the elements of a list that satisfy a test, in order
RECURSIVE Filter(_, _)
Filter(list, keep) ==
    IF list = <<>> THEN <<>>
    ELSE (IF Head(list) \in keep THEN <<Head(list)>> ELSE <<>>)
         \o Filter(Tail(list), keep)

\* _categorize_by_importance
_categorize_by_importance(skills, job_description) ==
    LET text_lower == Lower(job_description)
        required_positions == KeywordPositions(text_lower, required_keywords)
        preferred_positions == KeywordPositions(text_lower, preferred_keywords)
        Of(importance) ==
            {skill \in Range(skills) :
                Importance(skill, text_lower, required_positions,
                           preferred_positions) = importance}
    IN  [critical |-> Filter(skills, Of("critical")),
         recommended |-> Filter(skills, Of("recommended")),
         soft |-> Filter(skills, Of("soft"))]

\* the set of skill.lower() for the skills of a list
LowerSet(skills) == {Lower(skills[i]) : i \in 1..Len(skills)}

\* list[:n]
Take(list, n) == SubSeq(list, 1, Min({n, Len(list)}))

\* int() of matched / total * 100 instead of round()
TruncatedPercent(matched, total) == (100 * matched) \div total

\* round() of matched / total * 100: to the nearest integer, a half to the
\* even neighbour; the float quotient rounds as the exact one for total < 40
RoundPercent(matched, total) ==
    LET floor == (100 * matched) \div total
        twice == 2 * ((100 * matched) % total)
    IN  IF twice < total THEN floor
        ELSE IF twice > total THEN floor + 1
        ELSE IF floor % 2 = 0 THEN floor ELSE floor + 1

\* `not job_description or len(job_description.strip()) < 20`
MinJobDescription == 20

\* the test on the length alone, without the strip()
NoJobDescriptionUntrimmed(job_description) ==
    \/ job_description \in {None, ""}
    \/ Len(job_description) < MinJobDescription

NoJobDescription(job_description) ==
    \/ job_description \in {None, ""}
    \/ Len(Strip(job_description)) < MinJobDescription

\* the test `skill.lower() in resume_skills_lower` without the lower()
InResumeAsWritten(skill, resume_skills_lower) == skill \in resume_skills_lower

\* `skill.lower() in resume_skills_lower`
InResume(skill, resume_skills_lower) == Lower(skill) \in resume_skills_lower

\* the locals of analyze once the three loops are over, job_skills being
\* list(found_skills) and categorized_job_skills its categorization
AnalyzeLocals(resume_skills, job_skills, categorized_job_skills) ==
    LET resume_skills_lower == LowerSet(resume_skills)
        present == {skill \in Range(job_skills) :
                       InResume(skill, resume_skills_lower)}
        absent == Range(job_skills) \ present
    IN  [resume_skills_lower |-> resume_skills_lower,
         job_skills |-> job_skills,
         categorized_job_skills |-> categorized_job_skills,
         missing_critical |-> Filter(categorized_job_skills.critical, absent),
         missing_recommended |->
             Filter(categorized_job_skills.recommended, absent),
         missing_soft |-> Filter(categorized_job_skills.soft, absent),
         matched_skills |->
             Filter(categorized_job_skills.critical, present)
             \o Filter(categorized_job_skills.recommended, present)
             \o Filter(categorized_job_skills.soft, present)]

MaxCritical == 10
MaxRecommended == 8
MaxSoft == 5

\* the dict analyze returns
AnalyzeResult(locals) ==
    LET total_job_skills == Len(locals.job_skills)
        matched_count == Len(locals.matched_skills)
    IN  [critical |-> Take(locals.missing_critical, MaxCritical),
         recommended |-> Take(locals.missing_recommended, MaxRecommended),
         soft |-> Take(locals.missing_soft, MaxSoft),
         match_percentage |->
             IF total_job_skills > 0
             THEN RoundPercent(matched_count, total_job_skills) ELSE 0,
         total_job_skills |-> total_job_skills,
         matched_skills |-> matched_count,
         matched_skills_list |-> locals.matched_skills,
         has_job_description |-> TRUE]

common_critical == <<"Docker", "Kubernetes", "CI/CD", "AWS", "Git",
                     "REST API", "SQL", "Agile", "Unit Testing">>

common_recommended == <<"GraphQL", "Microservices", "TypeScript", "Redis",
                        "Terraform", "Monitoring", "Security">>

common_soft == <<"Leadership", "Communication", "Problem Solving",
                 "Team Collaboration", "Project Management">>

MaxDefaultCritical == 5
MaxDefaultRecommended == 4
MaxDefaultSoft == 3

\* _get_default_suggestions
_get_default_suggestions(resume_skills) ==
    LET resume_skills_lower == LowerSet(resume_skills)
        Missing(common) ==
            Filter(common, {s \in Range(common) :
                               Lower(s) \notin resume_skills_lower})
    IN  [critical |-> Take(Missing(common_critical), MaxDefaultCritical),
         recommended |->
             Take(Missing(common_recommended), MaxDefaultRecommended),
         soft |-> Take(Missing(common_soft), MaxDefaultSoft),
         match_percentage |-> 0,
         total_job_skills |-> 0,
         matched_skills |-> 0,
         matched_skills_list |-> <<>>,
         has_job_description |-> FALSE]

\* ---- analyze as a state machine ----

MaxPhrases == 4

FillerLen == 300

Phrases == {"Python", "required", "bonus", "teamwork", Rep("x", FillerLen)}

JobDescriptions == {Join(p, " ") : p \in SeqsUpTo(Phrases, MaxPhrases)}

\* job descriptions analyze takes for none: no value, blanks only, a short
\* text among blanks
BlankLen == MinJobDescription

ShortJobDescriptions ==
    {None, Rep(" ", BlankLen), "Python" \o Rep(" ", BlankLen)}

\* a job description with three skills
SkilledJobDescriptions == {"Python, Docker and AWS are required"}

ResumeSkillLists ==
    {<<>>, <<"python">>, <<"Teamwork", "PYTHON">>,
     <<"Docker", "git", "AWS", "sql", "Agile", "leadership">>}

InitGap ==
    /\ gapPc = "call"
    /\ gapJob \in JobDescriptions \cup ShortJobDescriptions
                 \cup SkilledJobDescriptions
    /\ gapResume = <<>>
    /\ gapLocals = <<>>
    /\ gapRet = <<>>
    /\ ExtractorIdle
    /\ SegmenterIdle
    /\ SkillsIdle
    /\ ScorerIdle
    /\ RoutesIdle
    /\ JobsIdle
    /\ AuthIdle
    /\ SkillAnalysisIdle

\* analyze without a usable job description
DefaultSuggestions ==
    /\ gapPc = "call"
    /\ NoJobDescription(gapJob)
    /\ \E resume_skills \in ResumeSkillLists :
           /\ gapResume' = resume_skills
           /\ gapRet' = _get_default_suggestions(resume_skills)
    /\ gapPc' = "defaulted"
    /\ UNCHANGED <<gapJob, gapLocals, outsideGap>>

\* analyze with a job description
Analyze ==
    /\ gapPc = "call"
    /\ ~NoJobDescription(gapJob)
    /\ \E job_skills \in Orderings(_extract_skills_from_text(gapJob)) :
           LET categorized_job_skills ==
                   _categorize_by_importance(job_skills, gapJob)
           IN  \E resume_skills \in ResumeSkillLists :
                   LET locals == AnalyzeLocals(resume_skills, job_skills,
                                               categorized_job_skills)
                   IN  /\ gapResume' = resume_skills
                       /\ gapLocals' = locals
                       /\ gapRet' = AnalyzeResult(locals)
    /\ gapPc' = "analyzed"
    /\ UNCHANGED <<gapJob, outsideGap>>

NextGap ==
    \/ DefaultSuggestions
    \/ Analyze

SpecGap == InitGap /\ [][NextGap]_vars

\* ---- properties of the gap analyzer ----

AbsentOrShort(job_description) ==
    \/ job_description = None
    \/ \A i \in 1..Len(job_description) :
           \A j \in (i + MinJobDescription - 1)..Len(job_description) :
               Ch(job_description, i) \in WhiteSpace
                   \/ Ch(job_description, j) \in WhiteSpace

\* C11: when the job description is absent, empty or shorter than 20
\* characters after trimming, analyze returns (it does not raise)
\* has_job_description false, match_percentage 0 and no matched skills, and
\* its suggestions come only from the fixed generic suggestion lists.
C11_DefaultSuggestions ==
    (gapPc # "call" /\ AbsentOrShort(gapJob)) =>
        /\ gapPc = "defaulted"
        /\ gapRet.has_job_description = FALSE
        /\ gapRet.match_percentage = 0
        /\ gapRet.matched_skills = 0
        /\ gapRet.matched_skills_list = <<>>
        /\ Range(gapRet.critical) \subseteq Range(common_critical)
        /\ Range(gapRet.recommended) \subseteq Range(common_recommended)
        /\ Range(gapRet.soft) \subseteq Range(common_soft)

\* a short text among blanks, longer than 20 characters as it is given, for a
\* resume that has some of the generic skills already
C11_Witness ==
    /\ gapPc = "defaulted"
    /\ gapJob = "Python" \o Rep(" ", BlankLen)
    /\ gapRet.critical = <<"Kubernetes", "CI/CD", "REST API", "Unit Testing">>
    /\ gapRet.soft = <<"Communication", "Problem Solving", "Team Collaboration">>

\* every position of s where sub occurs
Occurrences(s, sub) ==
    {k \in 1..(Len(s) - Len(sub) + 1) : SubSeq(s, k, k + Len(sub) - 1) = sub}

\* some occurrence of the skill lies less than Window characters from some
\* occurrence of a keyword of the class
NearestWithinWindow(text_lower, skill_lower, keywords) ==
    \E i \in 1..Len(keywords) :
        \E p \in Occurrences(text_lower, skill_lower) :
            \E q \in Occurrences(text_lower, keywords[i]) :
                Abs(p - q) < Window

\* the class of a job skill when distances are taken between the nearest
\* occurrences of the skill and of a keyword
NearestImportance(skill, text_lower) ==
    IF skill \in Range(SkillsIn("soft_skills")) THEN "soft"
    ELSE IF NearestWithinWindow(text_lower, Lower(skill), required_keywords)
         THEN "critical"
    ELSE IF NearestWithinWindow(text_lower, Lower(skill), preferred_keywords)
         THEN "recommended"
    ELSE "critical"

\* C10: a soft-skill category skill is soft; any other job skill is critical
\* when its occurrence nearest to a required keyword is within the window of
\* it, else recommended when its occurrence nearest to a preferred keyword
\* is, else critical
C10_NearestOccurrence ==
    gapPc = "analyzed" =>
        \A skill \in Range(gapLocals.job_skills) :
            skill \in Range(gapLocals.categorized_job_skills[
                               NearestImportance(skill, Lower(gapJob))])

\* ---- skill matching (app/services/nlp_analyzer.py) ----

\* _initialize_skill_database, the categories in the order of the dict
skill_database == <<
    [category |-> "programming_languages",
     skills |-> <<"Python", "JavaScript", "TypeScript", "Java", "C++",
                 "C#", "Go", "Rust", "Ruby", "PHP", "Swift",
                 "Kotlin", "Scala", "R", "MATLAB", "Perl", "Haskell",
                 "Lua", "Dart", "Objective-C">>],
    [category |-> "web_frameworks",
     skills |-> <<"React", "React.js", "Angular", "Vue.js", "Vue",
                 "Next.js", "Node.js", "Express", "Express.js",
                 "Django", "Flask", "FastAPI", "Spring Boot",
                 "Spring", "ASP.NET", "Ruby on Rails", "Laravel",
                 "Symfony", "jQuery", "Bootstrap", "Tailwind CSS">>],
    [category |-> "databases",
     skills |-> <<"MongoDB", "PostgreSQL", "MySQL", "SQLite",
                 "Oracle", "SQL Server", "Redis", "Elasticsearch",
                 "Cassandra", "DynamoDB", "Firebase", "Neo4j",
                 "MariaDB", "CouchDB">>],
    [category |-> "cloud_devops",
     skills |-> <<"AWS", "Amazon Web Services", "Azure",
                 "Google Cloud", "GCP", "Docker", "Kubernetes",
                 "K8s", "Terraform", "Ansible", "Jenkins",
                 "CircleCI", "GitHub Actions", "GitLab CI", "Heroku",
                 "Vercel", "Netlify", "DigitalOcean">>],
    [category |-> "data_science",
     skills |-> <<"Machine Learning", "Deep Learning", "TensorFlow",
                 "PyTorch", "Keras", "Scikit-learn", "Pandas",
                 "NumPy", "Matplotlib", "Seaborn", "Jupyter",
                 "Apache Spark", "Hadoop", "NLP", "Computer Vision",
                 "Neural Networks", "Data Mining">>],
    [category |-> "tools",
     skills |-> <<"Git", "GitHub", "GitLab", "Bitbucket", "JIRA",
                 "Confluence", "Trello", "Slack", "VS Code",
                 "IntelliJ", "Postman", "Figma", "Adobe XD", "Linux",
                 "Unix", "Bash", "PowerShell">>],
    [category |-> "soft_skills",
     skills |-> <<"Leadership", "Communication", "Problem Solving",
                 "Teamwork", "Project Management", "Agile", "Scrum",
                 "Critical Thinking", "Time Management",
                 "Collaboration", "Mentoring", "Presentation">>]
>>

\* every skill of the matcher's database
MatcherSkills ==
    UNION {Range(skill_database[i].skills) : i \in 1..Len(skill_database)}

\* len(self.skill_database.get(category, []))
TotalInCategory(category) ==
    IF \E i \in 1..Len(skill_database) : skill_database[i].category = category
    THEN Len(skill_database[CHOOSE i \in 1..Len(skill_database) :
                               skill_database[i].category = category].skills)
    ELSE 0

\* a comma or a bracket is a token of its own wherever it stands
Brackets == {",", "(", ")"}

Separators == WhiteSpace \cup Brackets

\* a hyphen between two letters is a token of its own
InfixHyphen(s, k) ==
    /\ 1 < k /\ k < Len(s)
    /\ Ch(s, k) = "-"
    /\ Ch(s, k - 1) \in Letters
    /\ Ch(s, k + 1) \in Letters

\* the first position from i on where the token that starts at i is over
TokenStop(s, i) ==
    Min({NextIn(s, i, Separators)}
        \cup {k \in i + 1..Len(s) : InfixHyphen(s, k)})

\* the tokens of a lower-cased skill: the runs between blanks, each comma or
\* bracket and each hyphen between letters a token of its own
RECURSIVE Tokens(_, _)
Tokens(s, i) ==
    IF i > Len(s) THEN <<>>
    ELSE IF Ch(s, i) \in WhiteSpace
         THEN Tokens(s, SkipWhile(s, i, WhiteSpace))
    ELSE IF Ch(s, i) \in Brackets \/ InfixHyphen(s, i)
         THEN <<Ch(s, i)>> \o Tokens(s, i + 1)
    ELSE <<SubSeq(s, i, TokenStop(s, i) - 1)>> \o Tokens(s, TokenStop(s, i))

\* self.nlp.make_doc(skill.lower()) of every skill, the matcher's patterns
SkillPattern == [skill \in MatcherSkills |-> Tokens(Lower(skill), 1)]

\* the positions of the doc where a token starts
TokenStarts(s) ==
    {k \in 1..Len(s) :
        /\ Ch(s, k) \notin WhiteSpace
        /\ \/ k = 1
           \/ Ch(s, k) \in Brackets
           \/ Ch(s, k - 1) \in Separators
           \/ InfixHyphen(s, k)
           \/ InfixHyphen(s, k - 1)}

\* a token of the doc can end at position end: the text ends there, or a
\* separator follows, or the full stop that closes a sentence
TokenEnds(s, end) ==
    \/ end = Len(s)
    \/ Ch(s, end + 1) \in Separators
    \/ InfixHyphen(s, end + 1)
    \/ InfixHyphen(s, end)
    \/ /\ Ch(s, end + 1) = "."
       /\ Ch(s, end) \in LowerLetters
       /\ (end + 1 = Len(s) \/ Ch(s, end + 2) \in Separators)

\* the token of the doc that starts at p is tok
TokenAt(s, p, tok) ==
    LET end == p + Len(tok) - 1 IN
    /\ end <= Len(s)
    /\ SubSeq(s, p, end) = tok
    /\ (tok \in Brackets \/ TokenEnds(s, end))

\* where the token after the one that ends at end starts: one blank after a
\* token belongs to it, any other white space is a token
NextToken(s, end) ==
    IF end < Len(s) /\ Ch(s, end + 1) = " " THEN end + 2 ELSE end + 1

\* PhraseMatcher on LOWER: where the match of the pattern that starts with
\* the token at p ends, 0 when the tokens from p on are not the pattern's
RECURSIVE MatchEnd(_, _, _)
MatchEnd(s, p, pattern) ==
    IF p > Len(s) \/ ~TokenAt(s, p, Head(pattern)) THEN 0
    ELSE LET end == p + Len(Head(pattern)) - 1 IN
         IF Len(pattern) = 1 THEN end
         ELSE MatchEnd(s, NextToken(s, end), Tail(pattern))

\* str.title(): the first letter of every run of letters in upper case
RECURSIVE TitleFrom(_, _, _)
TitleFrom(s, a, b) ==
    IF a > b THEN ""
    ELSE IF a = b
         THEN LET c == Ch(s, a) IN
              IF c \notin Letters THEN c
              ELSE IF a > 1 /\ Ch(s, a - 1) \in Letters THEN Lower(c)
              ELSE Upper(c)
    ELSE LET h == (a + b) \div 2
         IN  TitleFrom(s, a, h) \o TitleFrom(s, h + 1, b)

Title(s) == TitleFrom(s, 1, Len(s))

SkillFloor == 50

\* categorized_skills of extract_skills: doc[start:end].text.title() of the
\* matches of the patterns of a category
CategorizedSkills(doc, starts, category) ==
    LET skills == skill_database[CHOOSE i \in 1..Len(skill_database) :
                                    skill_database[i].category = category].skills
    IN  {Title(SubSeq(doc, m[1], m[2])) :
            m \in {<<p, MatchEnd(doc, p, SkillPattern[skill])>> :
                      p \in starts, skill \in Range(skills)} \ (starts \X {0})}

\* extract_skills: a record for every category with a match
extract_skills(text) ==
    LET doc == Lower(text)
        starts == TokenStarts(doc)
        categories == {skill_database[i].category : i \in 1..Len(skill_database)}
        categorized_skills ==
            [category \in categories |-> CategorizedSkills(doc, starts, category)]
        matched == {category \in categories : categorized_skills[category] # {}}
    IN  [category \in matched |->
            LET found_count == Cardinality(categorized_skills[category])
            IN  [skills |-> categorized_skills[category],
                 count |-> found_count,
                 score |-> Min({100,
                     (found_count * 100) \div Max({TotalInCategory(category), 1})
                     + SkillFloor})]]

\* ---- the two matchers applied to a text and to the same text in another
\* ---- letter case

MaxSnippets == 2

Snippets == {"java", "JavaScript", "Python,", "Machine Learning", "SQL"}

\* the skills of a category of the database
SkillsOf(category) ==
    skill_database[CHOOSE i \in 1..Len(skill_database) :
                      skill_database[i].category = category].skills

\* a text that lists every skill of a category, one of them also as it is
\* written with blanks around its hyphen
FullCategoryText ==
    Join(SkillsOf("data_science"), " ") \o " and Scikit - learn"

SkillTexts ==
    {Join(p, " ") : p \in SeqsUpTo(Snippets, MaxSnippets)}
    \cup {FullCategoryText}

\* the same text in the other letter cases
CaseVariants(text) == {Upper(text), Lower(text), Title(text)} \ {text}

InitSkills ==
    /\ matchPc = "new"
    /\ matchText \in SkillTexts
    /\ matchNlp = <<>>
    /\ matchJob = {}
    /\ matchPrev = <<>>
    /\ ExtractorIdle
    /\ SegmenterIdle
    /\ GapIdle
    /\ ScorerIdle
    /\ RoutesIdle
    /\ JobsIdle
    /\ AuthIdle
    /\ SkillAnalysisIdle

\* NLPResumeAnalyzer.extract_skills on the text
ExtractSkills ==
    /\ matchPc = "new"
    /\ matchNlp' = extract_skills(matchText)
    /\ matchPc' = "resume skills"
    /\ UNCHANGED <<matchText, matchJob, matchPrev, outsideSkills>>

\* MissingSkillsAnalyzer._extract_skills_from_text on the text
ExtractJobSkills ==
    /\ matchPc = "resume skills"
    /\ matchJob' = _extract_skills_from_text(matchText)
    /\ matchPc' = "done"
    /\ UNCHANGED <<matchText, matchNlp, matchPrev, outsideSkills>>

\* the text comes again in another letter case
Recase ==
    /\ matchPc = "done"
    /\ matchPrev = <<>>
    /\ matchText' \in CaseVariants(matchText)
    /\ matchPrev' = [text |-> matchText, nlp |-> matchNlp, job |-> matchJob]
    /\ matchPc' = "new"
    /\ UNCHANGED <<matchNlp, matchJob, outsideSkills>>

NextSkills ==
    \/ ExtractSkills
    \/ ExtractJobSkills
    \/ Recase

SpecSkills == InitSkills /\ [][NextSkills]_vars

\* ---- properties of the matchers ----

WordChars == Letters \cup Digits

\* the phrase occurs in the text, in any letter case, with no letter or digit
\* right before or right after it
DelimitedOccurrence(text, phrase) ==
    \E p \in Occurrences(Lower(text), Lower(phrase)) :
        LET end == p + Len(phrase) - 1 IN
        /\ p = 1 \/ Ch(text, p - 1) \notin WordChars
        /\ end = Len(text) \/ Ch(text, end + 1) \notin WordChars

\* the skills extract_skills reported, of all categories
NlpSkills(result) == UNION {result[category].skills : category \in DOMAIN result}

\* C9: a matcher reports a phrase only when the text has it delimited by
\* the ends of the text, blanks or punctuation, so Java is not reported for a
\* text that has java only inside javascript, and the same text in another
\* letter case yields the same skills
C9_BoundaryAndCase ==
    matchPc = "done" =>
        /\ \A skill \in matchJob : DelimitedOccurrence(matchText, skill)
        /\ \A skill \in NlpSkills(matchNlp) :
               DelimitedOccurrence(matchText, skill)
        /\ matchPrev # <<>> =>
               /\ matchJob = matchPrev.job
               /\ matchNlp = matchPrev.nlp

\* a text with java only inside javascript, matched in two letter cases
C9_Witness ==
    /\ matchPc = "done"
    /\ matchPrev # <<>>
    /\ matchPrev.text = "JavaScript Python,"
    /\ matchText = "JAVASCRIPT PYTHON,"
    /\ matchJob = {"JavaScript", "Python"}
    /\ NlpSkills(matchNlp) = {"Javascript", "Python"}

\* ---- ATS scoring (app/services/ats_scorer.py) ----

\* self.weights, in hundredths
weights == [keywords |-> 30, formatting |-> 25, experience |-> 20,
            education |-> 15, skills |-> 10]

required_sections == <<"experience", "education", "skills", "summary",
                       "contact", "work history", "employment">>

action_verbs == <<"achieved", "improved", "developed", "created", "managed",
                  "led", "designed", "implemented", "increased", "reduced",
                  "launched", "built", "delivered", "optimized", "streamlined",
                  "spearheaded", "orchestrated", "executed", "transformed">>

common_keywords == <<"experience", "developed", "managed", "team", "project",
                     "skills", "implemented", "designed", "improved", "led">>

degree_keywords == <<"bachelor", "master", "phd", "doctorate", "mba",
                     "b.s.", "m.s.", "b.a.", "m.a.", "degree">>

edu_keywords == <<"university", "college", "institute", "school">>

\* sum(1 for kw in keywords if kw in text)
CountIn(text, keywords) ==
    Cardinality({i \in 1..Len(keywords) : Contains(text, keywords[i])})

\* any(kw in text for kw in keywords)
AnyIn(text, keywords) == \E i \in 1..Len(keywords) : Contains(text, keywords[i])

\* the lower-cased skills of all categories of a result of extract_skills
SkillsFlat(skills) ==
    UNION {{Lower(s) : s \in skills[cat].skills} : cat \in DOMAIN skills}

\* round(matched / total * 100, 1) in tenths, a half going to the even tenth;
\* the float quotient rounds as the exact one for total < 40
RoundTenths(matched, total) ==
    LET floor == (1000 * matched) \div total
        twice == 2 * ((1000 * matched) % total)
    IN  IF twice < total THEN floor
        ELSE IF twice > total THEN floor + 1
        ELSE IF floor % 2 = 0 THEN floor ELSE floor + 1

KeywordBonus == 20

\* `min(100, int(match_percentage + 20))` without the min
UncappedBonus(matched, total) == (100 * matched) \div total + KeywordBonus

\* min(100, int(match_percentage + 20)) for match_percentage = matched/total*100
BonusScore(matched, total) ==
    Min({100, (100 * matched) \div total + KeywordBonus})

\* the branch of _score_keywords with a job description, from the flattened
\* skill sets; match_percentage is num / den
KeywordMatch(resume_skills_flat, job_skills_flat) ==
    LET matched == IF job_skills_flat # {}
                   THEN resume_skills_flat \cap job_skills_flat ELSE {}
        missing == IF job_skills_flat # {}
                   THEN job_skills_flat \ resume_skills_flat ELSE {}
        num == IF job_skills_flat # {} THEN 100 * Cardinality(matched) ELSE 50
        den == IF job_skills_flat # {} THEN Cardinality(job_skills_flat) ELSE 1
    IN  [score |-> IF job_skills_flat # {}
                   THEN BonusScore(Cardinality(matched),
                                   Cardinality(job_skills_flat))
                   ELSE BonusScore(1, 2),
         feedback |->
             IF num >= 70 * den
             THEN "Excellent keyword match with job description"
             ELSE IF num >= 50 * den
             THEN "Good keyword coverage, consider adding missing terms"
             ELSE "Low keyword match - add more relevant skills",
         analysis |-> [matched |-> matched,
                       missing |-> missing,
                       match_rate_tenths |->
                           IF job_skills_flat # {}
                           THEN RoundTenths(Cardinality(matched),
                                            Cardinality(job_skills_flat))
                           ELSE 500]]

\* the branch of _score_keywords without a job description
GeneralKeywords(found) ==
    [score |-> Min({100, found * 10 + 40}),
     feedback |-> "Add job-specific keywords for better matching",
     analysis |-> [general_keywords_found |-> found]]

\* _score_keywords; the lists of the analysis are cut where it is returned
_score_keywords(resume_text, job_description) ==
    IF job_description # ""
    THEN KeywordMatch(SkillsFlat(extract_skills(resume_text)),
                      SkillsFlat(extract_skills(job_description)))
    ELSE GeneralKeywords(CountIn(Lower(resume_text), common_keywords))

\* \w of a regular expression
RegexWord == Letters \cup Digits \cup {"_"}

\* \b between the characters k - 1 and k of s
WordBoundary(s, k) ==
    (k - 1 >= 1 /\ Ch(s, k - 1) \in RegexWord)
        # (k <= Len(s) /\ Ch(s, k) \in RegexWord)

\* (?:^|\s)([A-Z]\.){2,} matches somewhere
ExcessiveAbbreviations(s) ==
    \E p \in 1..(Len(s) - 3) :
        /\ p = 1 \/ Ch(s, p - 1) \in WhiteSpace
        /\ Ch(s, p) \in UpperLetters /\ Ch(s, p + 1) = "."
        /\ Ch(s, p + 2) \in UpperLetters /\ Ch(s, p + 3) = "."

\* re.search(pattern, resume_text) for the problematic_patterns in order; a
\* text here has no character outside ASCII, which the first and the third
\* pattern need
problematic_patterns(resume_text) ==
    <<FALSE, Contains(resume_text, "|"), FALSE,
      ExcessiveAbbreviations(resume_text)>>

EmailChars == RegexWord \cup {".", "-"}

\* \b[\w.-]+@[\w.-]+\.\w+\b matches somewhere
HasEmailPattern(s) ==
    \E a \in {k \in 1..Len(s) : Ch(s, k) = "@"} :
        /\ \E st \in 1..(a - 1) :
               AllIn(s, st, a - 1, EmailChars) /\ WordBoundary(s, st)
        /\ \E d \in (a + 2)..(Len(s) - 1) :
               /\ Ch(s, d) = "."
               /\ AllIn(s, a + 1, d - 1, EmailChars)
               /\ \E e \in (d + 1)..Len(s) :
                      AllIn(s, d + 1, e, RegexWord) /\ WordBoundary(s, e + 1)

\* \b\d{3}[-.]?\d{3}[-.]?\d{4}\b matches somewhere
HasPhonePattern(s) ==
    \E p \in {k \in 1..Len(s) : Ch(s, k) \in Digits} :
        /\ WordBoundary(s, p)
        /\ \E o1 \in {0, 1} : \E o2 \in {0, 1} :
               LET second == p + 3 + o1
                   third == second + 3 + o2
               IN  /\ AllIn(s, p, p + 2, Digits)
                   /\ o1 = 1 => AllIn(s, p + 3, p + 3, {"-", "."})
                   /\ AllIn(s, second, second + 2, Digits)
                   /\ o2 = 1 => AllIn(s, second + 3, second + 3, {"-", "."})
                   /\ AllIn(s, third, third + 3, Digits)
                   /\ WordBoundary(s, third + 4)

MinSections == 3
MinWords == 200
MaxWords == 2000

PatternPenalty == 5

RECURSIVE PatternIssuesNoBreak(_)
RECURSIVE PatternIssues(_)

\* the loop over problematic_patterns without its break
PatternIssuesNoBreak(found) ==
    IF found = <<>> THEN <<>>
    ELSE IF Head(found)
    THEN <<[issue |-> "Contains characters that may not parse correctly",
            points |-> PatternPenalty]>> \o PatternIssuesNoBreak(Tail(found))
    ELSE PatternIssuesNoBreak(Tail(found))

\* the loop over problematic_patterns: the first pattern found ends it
PatternIssues(found) ==
    IF found = <<>> THEN <<>>
    ELSE IF Head(found)
    THEN <<[issue |-> "Contains characters that may not parse correctly",
            points |-> PatternPenalty]>>
    ELSE PatternIssues(Tail(found))

\* the issues of _score_formatting with the points each takes, in order
FormattingIssues(resume_text) ==
    LET text_lower == Lower(resume_text)
        sections_found == CountIn(text_lower, required_sections)
        word_count == WordCount(resume_text)
    IN  (IF sections_found < MinSections
         THEN <<[issue |-> "Missing key resume sections", points |-> 20]>>
         ELSE <<>>)
        \o PatternIssues(problematic_patterns(resume_text))
        \o (IF word_count < MinWords
            THEN <<[issue |-> "Resume appears too short", points |-> 15]>>
            ELSE IF word_count > MaxWords
            THEN <<[issue |-> "Resume may be too long for ATS", points |-> 10]>>
            ELSE <<>>)
        \o (IF ~HasEmailPattern(resume_text)
            THEN <<[issue |-> "No email address detected", points |-> 10]>>
            ELSE <<>>)
        \o (IF ~HasPhonePattern(resume_text)
            THEN <<[issue |-> "No phone number detected", points |-> 5]>>
            ELSE <<>>)

RECURSIVE SumPoints(_)
SumPoints(issues) ==
    IF issues = <<>> THEN 0 ELSE Head(issues).points + SumPoints(Tail(issues))

\* _score_formatting
_score_formatting(resume_text) ==
    LET issues == FormattingIssues(resume_text) IN
    [score |-> Max({0, Min({100, 100 - SumPoints(issues)})}),
     feedback |-> IF issues # <<>> THEN issues[1].issue
                  ELSE "Well-formatted resume structure"]

\* where the match of \d+%|\$\d+|\d+\+ that starts at p ends, 0 if none does
NumberEnd(s, p) ==
    IF Ch(s, p) \in Digits
    THEN LET next == SkipWhile(s, p, Digits) IN
         IF next <= Len(s) /\ Ch(s, next) \in {"%", "+"} THEN next ELSE 0
    ELSE IF Ch(s, p) = "$" /\ p < Len(s) /\ Ch(s, p + 1) \in Digits
    THEN SkipWhile(s, p + 1, Digits) - 1
    ELSE 0

\* len(re.findall(r'\d+%|\$\d+|\d+\+', s)), the matches from position i on
RECURSIVE CountNumbers(_, _)
CountNumbers(s, i) ==
    LET at == {p \in i..Len(s) :
                  Ch(s, p) \in Digits \cup {"$"} /\ NumberEnd(s, p) # 0}
    IN  IF at = {} THEN 0 ELSE 1 + CountNumbers(s, NumberEnd(s, Min(at)) + 1)

\* _score_experience
_score_experience(resume_text) ==
    LET text_lower == Lower(resume_text)
        action_verb_count == CountIn(text_lower, action_verbs)
        numbers == CountNumbers(resume_text, 1)
        verbs == IF action_verb_count >= 8
                 THEN [points |-> 25, feedback |-> "Strong use of action verbs"]
                 ELSE IF action_verb_count >= 4
                 THEN [points |-> 15,
                       feedback |-> "Good action verb usage, could add more"]
                 ELSE [points |-> 0,
                       feedback |->
                           "Add more action verbs to describe achievements"]
    IN  [score |-> Min({100, 60 + verbs.points
                             + (IF numbers >= 3 THEN 15
                                ELSE IF numbers >= 1 THEN 8 ELSE 0)}),
         feedback |-> IF numbers >= 3
                      THEN "Excellent use of quantifiable metrics"
                      ELSE verbs.feedback]

\* (19|20)\d{2} matches somewhere
HasYear(s) ==
    \E p \in 1..(Len(s) - 3) :
        /\ SubSeq(s, p, p + 1) \in {"19", "20"}
        /\ Ch(s, p + 2) \in Digits /\ Ch(s, p + 3) \in Digits

\* _score_education
_score_education(resume_text) ==
    LET text_lower == Lower(resume_text)
        has_degree == AnyIn(text_lower, degree_keywords)
        has_institution == AnyIn(text_lower, edu_keywords)
        has_year == HasYear(resume_text)
    IN  [score |-> Min({100, 50 + (IF has_degree THEN 30 ELSE 0)
                             + (IF has_institution THEN 15 ELSE 0)
                             + (IF has_year THEN 5 ELSE 0)}),
         feedback |-> IF has_degree /\ has_institution
                      THEN "Education section is complete"
                      ELSE IF has_degree
                      THEN "Consider adding institution details"
                      ELSE "Add formal education credentials"]

RECURSIVE SumCounts(_, _)
SumCounts(skills, categories) ==
    IF categories = {} THEN 0
    ELSE LET cat == CHOOSE c \in categories : TRUE
         IN  skills[cat].count + SumCounts(skills, categories \ {cat})

\* the score and feedback of _score_skills for a number of skills
SkillsCoverage(total_skills) ==
    IF total_skills >= 15
    THEN [score |-> 95, feedback |-> "Comprehensive skills section"]
    ELSE IF total_skills >= 10
    THEN [score |-> 85, feedback |-> "Good skills coverage"]
    ELSE IF total_skills >= 5
    THEN [score |-> 70, feedback |-> "Consider adding more relevant skills"]
    ELSE [score |-> 50, feedback |-> "Skills section needs improvement"]

\* sum(cat['count'] for cat in skills.values())
TotalSkills(skills) == SumCounts(skills, DOMAIN skills)

\* _score_skills
_score_skills(resume_text) ==
    SkillsCoverage(TotalSkills(extract_skills(resume_text)))

ScoreComponent(name, score, weight, feedback) ==
    [name |-> name, score |-> score, weight |-> weight, feedback |-> feedback]

RECURSIVE SortByScore(_)

\* the components in the order calculate_ats_score lists them, not sorted
Unsorted(components) == components

\* sorted(components, key=lambda c: c.score), a stable sort
SortByScore(components) ==
    IF components = <<>> THEN <<>>
    ELSE LET least == Min({components[i].score : i \in 1..Len(components)})
             first == Min({i \in 1..Len(components) :
                              components[i].score = least})
         IN  <<components[first]>>
             \o SortByScore(SubSeq(components, 1, first - 1)
                            \o SubSeq(components, first + 1, Len(components)))

_get_component_label ==
    [keywords |-> "Keyword Optimization", formatting |-> "Format & Structure",
     experience |-> "Experience Relevance", education |-> "Education Match",
     skills |-> "Skills Coverage"]

_get_recommendation_title ==
    [keywords |-> "Add More Keywords", formatting |-> "Improve Resume Structure",
     experience |-> "Enhance Experience Section",
     education |-> "Complete Education Details",
     skills |-> "Expand Skills Section"]

_get_recommendation_icon ==
    [keywords |-> "search", formatting |-> "file-text",
     experience |-> "briefcase", education |-> "graduation-cap",
     skills |-> "tools"]

_get_score_label(score) ==
    IF score >= 90 THEN "Excellent"
    ELSE IF score >= 75 THEN "Good"
    ELSE IF score >= 60 THEN "Fair"
    ELSE "Needs Improvement"

GoodScore == 70
FairScore == 50
MaxRecommendations == 5

RECURSIVE Recommend(_)
Recommend(sorted_components) ==
    IF sorted_components = <<>> THEN <<>>
    ELSE LET comp == Head(sorted_components) IN
         (IF comp.score < GoodScore
          THEN <<[category |-> comp.name,
                  priority |-> IF comp.score < FairScore THEN "high"
                               ELSE "medium",
                  title |-> _get_recommendation_title[comp.name],
                  description |-> comp.feedback,
                  icon |-> _get_recommendation_icon[comp.name]]>>
          ELSE <<>>)
         \o Recommend(Tail(sorted_components))

\* _generate_recommendations
_generate_recommendations(components) ==
    LET recommendations ==
            Recommend(SortByScore(components))
            \o (IF \A i \in 1..Len(components) : components[i].score >= GoodScore
                THEN <<[category |-> "general",
                        priority |-> "low",
                        title |-> "Great Job!",
                        description |->
                            "Your resume is well-optimized for ATS systems",
                        icon |-> "check-circle"]>>
                ELSE <<>>)
    IN  Take(recommendations, MaxRecommendations)

\* sum(c.score * c.weight for c in components), in hundredths
RECURSIVE WeightedSum(_)
WeightedSum(components) ==
    IF components = <<>> THEN 0
    ELSE Head(components).score * Head(components).weight
         + WeightedSum(Tail(components))

\* the components of calculate_ats_score, in order
Components(keyword_score, format_score, experience_score, education_score, skills_score) ==
    <<ScoreComponent("keywords", keyword_score.score, weights.keywords,
                     keyword_score.feedback),
      ScoreComponent("formatting", format_score.score, weights.formatting,
                     format_score.feedback),
      ScoreComponent("experience", experience_score.score,
                     weights.experience, experience_score.feedback),
      ScoreComponent("education", education_score.score, weights.education,
                     education_score.feedback),
      ScoreComponent("skills", skills_score.score, weights.skills,
                     skills_score.feedback)>>

\* min(100, max(0, round(overall_score))): the sum to the nearest whole
OverallRounded(components) ==
    Min({100, Max({0, (WeightedSum(components) + 50) \div 100})})

\* min(100, max(0, int(overall_score)))
OverallScore(components) ==
    Min({100, Max({0, WeightedSum(components) \div 100})})

MaxMatchedKeywords == 15
MaxMissingKeywords == 10

\* keyword_score['analysis'] as _score_keywords returns it: list(matched)[:15]
\* and list(missing)[:10] take the sets in an order the build chooses
KeywordAnalyses(analysis) ==
    IF "matched" \in DOMAIN analysis
    THEN {[matched_keywords |-> Take(matched, MaxMatchedKeywords),
           missing_keywords |-> Take(missing, MaxMissingKeywords),
           match_rate_tenths |-> analysis.match_rate_tenths] :
             matched \in Orderings(analysis.matched),
             missing \in Orderings(analysis.missing)}
    ELSE {analysis}

\* the dict calculate_ats_score returns; int() of the float sum is the whole
\* part of the exact sum for every combination of scores the five functions
\* return
ScoreResult(components, keyword_analysis) ==
    LET overall_score == OverallScore(components)
    IN  [overall_score |-> overall_score,
         breakdown |->
             [name \in {components[i].name : i \in 1..Len(components)} |->
                 LET c == components[CHOOSE i \in 1..Len(components) :
                                        components[i].name = name]
                 IN  [score |-> c.score,
                      weight |-> c.weight,
                      label |-> _get_component_label[c.name],
                      feedback |-> c.feedback]],
         recommendations |-> _generate_recommendations(components),
         keyword_analysis |-> keyword_analysis,
         score_label |-> _get_score_label(overall_score)]

\* the dicts calculate_ats_score can return once the keywords are scored
ScoreResults(keyword_score, resume_text) ==
    {ScoreResult(Components(keyword_score,
                            _score_formatting(resume_text),
                            _score_experience(resume_text),
                            _score_education(resume_text),
                            _score_skills(resume_text)),
                 keyword_analysis) :
        keyword_analysis \in KeywordAnalyses(keyword_score.analysis)}

\* calculate_ats_score: the dicts it can return
calculate_ats_score(resume_text, job_description) ==
    ScoreResults(_score_keywords(resume_text, job_description), resume_text)

\* ---- the scorer as a state machine ----

MaxFragments == 2

\* resume fragments: the sections, the contact line, action verbs with
\* metrics, education, skills of several categories, a table row with initials
Fragments ==
    {"Experience Education Skills",
     "jane@mail.com 555-123-4567",
     "achieved improved developed created managed led designed implemented 10% $5 3+",
     "Bachelor University 2019",
     "Python Docker React Django Flask AWS Git Linux Redis MySQL Keras Scrum Agile Figma Java",
     "a | b U.S.A. 40%"}

\* resumes of the least length the scorer takes without a penalty
FullResumes ==
    {Join(body \o <<Rep("w ", MinWords)>>, " ") :
        body \in SeqsUpTo(Fragments, 1)}

\* resumes longer than the longest the scorer takes without a penalty
LongResumes ==
    {Rep("w ", MaxWords + 1),
     "Experience Education Skills jane@mail.com 555.123.4567 "
         \o Rep("w ", MaxWords + 1)}

\* a resume with every section, contact details, verbs, metrics, education
\* and skills, of the least length the scorer takes without a penalty
StrongResumes ==
    {"Experience Education Skills jane@mail.com 555-123-4567 "
         \o "achieved improved developed created managed led designed implemented 10% $5 3+ "
         \o "Bachelor University 2019 "
         \o "Python Docker React Django Flask AWS Git Linux Redis MySQL Keras Scrum Agile Figma Java "
         \o Rep("w ", MinWords)}

ScorerResumes ==
    {Join(body, " ") : body \in SeqsUpTo(Fragments, MaxFragments)}
        \cup FullResumes \cup LongResumes \cup StrongResumes

\* job descriptions: none, one whose skills a resume can cover, one it covers
\* in part, one that names no skill
ScorerJobs == {"", "Python and Docker", "Python, Kotlin, Rust", "Sales role"}

InitScorer ==
    /\ scorePc = "start"
    /\ scoreResume \in ScorerResumes
    /\ scoreJob \in ScorerJobs
    /\ scoreRet = <<>>
    /\ ExtractorIdle
    /\ SegmenterIdle
    /\ GapIdle
    /\ SkillsIdle
    /\ RoutesIdle
    /\ JobsIdle
    /\ AuthIdle
    /\ SkillAnalysisIdle

\* calculate_ats_score(resume_text, job_description)
CalculateAtsScore ==
    /\ scorePc = "start"
    /\ scoreRet' \in calculate_ats_score(scoreResume, scoreJob)
    /\ scorePc' = "done"
    /\ UNCHANGED <<scoreResume, scoreJob, outsideScorer>>

NextScorer == CalculateAtsScore

SpecScorer == InitScorer /\ [][NextScorer]_vars

\* ---- properties of the scorer ----

InRange(score) == score \in 0..100

ComponentNames == {"keywords", "formatting", "experience", "education", "skills"}

\* C1: for every resume text and every job description, empty or not,
\* calculate_ats_score returns an overall_score in [0,100] and a score in
\* [0,100] for each of the five components keywords, formatting, experience,
\* education and skills.
C1_ScoresInRange ==
    scorePc = "done" =>
        /\ InRange(scoreRet.overall_score)
        /\ DOMAIN scoreRet.breakdown = ComponentNames
        /\ \A name \in ComponentNames : InRange(scoreRet.breakdown[name].score)

\* a resume that covers every skill of the job: the match of 100 percent and
\* the bonus would give 120, and a short resume without sections and contact
\* details loses the most formatting points
C1_Witness ==
    /\ scorePc = "done"
    /\ scoreJob = "Python and Docker"
    /\ scoreRet.keyword_analysis.match_rate_tenths = 1000
    /\ scoreRet.breakdown["keywords"].score = 100
    /\ scoreRet.breakdown["formatting"].score = 50

\* the exact weighted sum in hundredths of a point, from the returned breakdown
ReturnedSum ==
    30 * scoreRet.breakdown["keywords"].score
        + 25 * scoreRet.breakdown["formatting"].score
        + 20 * scoreRet.breakdown["experience"].score
        + 15 * scoreRet.breakdown["education"].score
        + 10 * scoreRet.breakdown["skills"].score

\* C8: overall_score is the sum over the five components of score times
\* weight, the weights being keywords 0.30, formatting 0.25, experience 0.20,
\* education 0.15 and skills 0.10, which sum to 1; the sum is truncated to an
\* integer and clamped to [0,100].
C8_WeightedOverall ==
    scorePc = "done" =>
        /\ [name \in ComponentNames |-> scoreRet.breakdown[name].weight]
               = [keywords |-> 30, formatting |-> 25, experience |-> 20,
                  education |-> 15, skills |-> 10]
        /\ 30 + 25 + 20 + 15 + 10 = 100
        /\ \/ ReturnedSum < 0 /\ scoreRet.overall_score = 0
           \/ ReturnedSum >= 100 * 100 /\ scoreRet.overall_score = 100
           \/ /\ ReturnedSum \in 0..(100 * 100 - 1)
              /\ 100 * scoreRet.overall_score <= ReturnedSum
              /\ ReturnedSum < 100 * (scoreRet.overall_score + 1)

\* a sum with a fraction of a half or more, which truncation drops
C8_Witness ==
    /\ scorePc = "done"
    /\ ReturnedSum % 100 >= 50
    /\ scoreRet.overall_score = ReturnedSum \div 100

\* the places of resume_text where an ATS-hostile pattern occurs: a pipe, or
\* two or more initials with their dots after white space or at the start
HostilePlaces(resume_text) ==
    {k \in 1..Len(resume_text) :
        \/ Ch(resume_text, k) = "|"
        \/ /\ k = 1 \/ Ch(resume_text, k - 1) \in WhiteSpace
           /\ k + 3 <= Len(resume_text)
           /\ Ch(resume_text, k) \in UpperLetters
           /\ Ch(resume_text, k + 1) = "."
           /\ Ch(resume_text, k + 2) \in UpperLetters
           /\ Ch(resume_text, k + 3) = "."}

\* what the formatting sub-score takes off for everything but the hostile
\* patterns
OtherDeductions(resume_text) ==
    (IF CountIn(Lower(resume_text), required_sections) < 3 THEN 20 ELSE 0)
        + (IF WordCount(resume_text) < 200 THEN 15
           ELSE IF WordCount(resume_text) > 2000 THEN 10 ELSE 0)
        + (IF HasEmailPattern(resume_text) THEN 0 ELSE 10)
        + (IF HasPhonePattern(resume_text) THEN 0 ELSE 5)

\* C12: the formatting sub-score takes the hostile-pattern penalty of 5
\* points off exactly once when at least one ATS-hostile pattern occurs in
\* the text, whatever the number of distinct patterns or occurrences, and
\* takes nothing off for it when none occurs.
C12_FlatPatternPenalty ==
    scorePc = "done" =>
        scoreRet.breakdown["formatting"].score
            = 100 - OtherDeductions(scoreResume)
                  - (IF HostilePlaces(scoreResume) # {} THEN 5 ELSE 0)

\* two pipes and two runs of initials in a short text without sections and
\* contact details
C12_Witness ==
    /\ scorePc = "done"
    /\ Cardinality(HostilePlaces(scoreResume)) = 4
    /\ \E k \in HostilePlaces(scoreResume) : Ch(scoreResume, k) = "|"
    /\ \E k \in HostilePlaces(scoreResume) : Ch(scoreResume, k) # "|"
    /\ scoreRet.breakdown["formatting"].score = 45

\* the components the returned breakdown scores below 70
LowComponents == {name \in ComponentNames : scoreRet.breakdown[name].score < 70}

\* C13: the recommendations hold one entry for each component that scores
\* below 70 and none for any other component, in ascending order of score,
\* each with priority high if and only if its score is below 50 and medium
\* otherwise; if and only if all five components score at least 70 the list
\* is exactly one positive note.  The list has between 1 and 5 entries.
C13_Recommendations ==
    scorePc = "done" =>
        LET recs == scoreRet.recommendations
            ScoreOf(i) == scoreRet.breakdown[recs[i].category].score
        IN  /\ Len(recs) \in 1..5
            /\ (\E i \in 1..Len(recs) : recs[i].category = "general")
                   <=> LowComponents = {}
            /\ LowComponents = {} =>
                   /\ Len(recs) = 1
                   /\ recs[1].priority = "low"
                   /\ recs[1].title = "Great Job!"
            /\ LowComponents # {} =>
                   /\ Len(recs) = Cardinality(LowComponents)
                   /\ {recs[i].category : i \in 1..Len(recs)} = LowComponents
                   /\ \A i \in 1..Len(recs) : \A j \in i..Len(recs) :
                          ScoreOf(i) <= ScoreOf(j)
                   /\ \A i \in 1..Len(recs) :
                          /\ recs[i].priority \in {"high", "medium"}
                          /\ recs[i].priority = "high" <=> ScoreOf(i) < 50

\* four components below 70, two of them below 50, in an order that is not
\* the order of the components
C13_Witness ==
    /\ scorePc = "done"
    /\ [i \in 1..Len(scoreRet.recommendations) |->
           scoreRet.recommendations[i].category]
           = <<"keywords", "formatting", "skills", "experience">>
    /\ [i \in 1..Len(scoreRet.recommendations) |->
           scoreRet.recommendations[i].priority]
           = <<"high", "high", "medium", "medium">>

\* ---- the routes that take a document (app/routes/resume.py) ----

Requests == {"a", "b"}

Users == {"u1", "u2"}

\* secure_filename(file.filename) of the uploads
Filenames == {"cv.pdf", "resume.pdf"}

\* datetime.utcnow().strftime('%Y%m%d_%H%M%S'): the second a request runs in
Stamps == {"20260101_090000", "20260101_090001"}

\* what parse_resume_file makes of a document: text, no text, the image-only
\* marker, or an exception
DocumentKinds == {"text", "blank", "scan", "corrupt"}

\* the document a request carries; documents of different requests differ
Document(r, kind) == [of |-> r, kind |-> kind]

\* parse_resume_file raises on the content
ParseRaises(doc) == doc.kind = "corrupt"

\* what parse_resume_file returns for the content
ParsedText(doc) ==
    CASE doc.kind = "text" -> "Resume " \o doc.of \o "\nSKILLS\nPython"
      [] doc.kind = "blank" -> ""
      [] doc.kind = "scan" -> IMAGE_ONLY_PDF

\* os.path.join(upload_folder, f"temp_{user_id}_{filename}")
temp_path(req) == "uploads/temp_" \o req.user \o "_" \o req.filename

\* os.path.join(upload_folder, f"{user_id}_{timestamp}_{filename}")
file_path(req) ==
    "uploads/" \o req.user \o "_" \o req.stamp \o "_" \o req.filename

PathOf(req) ==
    IF req.route = "convert_ats" THEN temp_path(req) ELSE file_path(req)

\* file.save(path) and os.remove(path) on the upload folder
Saved(folder, path, doc) ==
    [p \in DOMAIN folder \cup {path} |-> IF p = path THEN doc ELSE folder[p]]

Removed(folder, path) == [p \in DOMAIN folder \ {path} |-> folder[p]]

\* mongo.db.users: the name of the profile
user_name(user) == IF user = "u1" THEN "Ann" ELSE "Bob"

PreviewLen == 500

\* resume_text[:500] + '...' if len(resume_text) > 500 else resume_text
Preview(resume_text) ==
    IF Len(resume_text) > PreviewLen
    THEN SubSeq(resume_text, 1, PreviewLen) \o "..." ELSE resume_text

Response(status, error, data) ==
    [status |-> status, error |-> error, data |-> data]

\* the sections of convert_ats: the contact falls back to the profile name
WithContact(sections, user) ==
    IF ~Has(sections, "contact") \/ Len(Strip(Get(sections, "contact"))) < 2
    THEN Put(sections, "contact", user_name(user))
    ELSE sections

\* the data of the 200 response of convert_ats, the generated resume_id apart
ConvertResult(result, resume_text, user) ==
    [ats_resume |-> result.ats_resume,
     sections |-> WithContact(result.sections, user),
     original_length |-> Len(resume_text),
     converted_length |-> Len(result.ats_resume)]

\* ats_converter.convert_resume(resume_text, job_keywords) for the texts of
\* the documents, without keywords
Conversions ==
    [resume_text \in {ParsedText(Document(r, "text")) : r \in Requests} |->
        convert_resume(resume_text, <<>>)]

ConvertData(resume_text, user) ==
    ConvertResult(Conversions[resume_text], resume_text, user)

\* the data of the 200 response of upload_resume, the generated resume_id apart
UploadData(resume_text, filename) ==
    [filename |-> filename,
     preview |-> Preview(resume_text),
     word_count |-> WordCount(resume_text)]

\* ---- two requests on the upload folder as a state machine ----

NoFiles == [p \in {} |-> None]

\* request a is fixed up to the document; request b may share its user, the
\* file name and the second with a
RequestPairs ==
    {[r \in Requests |->
         [route |-> route,
          user |-> IF r = "a" THEN "u1" ELSE user,
          filename |-> IF r = "a" THEN "cv.pdf" ELSE filename,
          stamp |-> IF r = "a" THEN "20260101_090000" ELSE stamp,
          doc |-> Document(r, kinds[r])]] :
        route \in {"convert_ats", "upload_resume"}, user \in Users,
        filename \in Filenames, stamp \in Stamps,
        kinds \in [Requests -> DocumentKinds]}

InitRoutes ==
    /\ reqIn \in RequestPairs
    /\ reqPc = [r \in Requests |-> "start"]
    /\ reqText = [r \in Requests |-> None]
    /\ reqOut = [r \in Requests |-> None]
    /\ uploads = NoFiles
    /\ resumes = {}
    /\ ats_resumes = {}
    /\ fileLog = {}
    /\ ExtractorIdle
    /\ SegmenterIdle
    /\ GapIdle
    /\ SkillsIdle
    /\ ScorerIdle
    /\ JobsIdle
    /\ AuthIdle
    /\ SkillAnalysisIdle

\* the entry of the file log for what request r does to the file at the path
Access(r, kind, path) ==
    IF path \in DOMAIN uploads
    THEN {[by |-> r, access |-> kind, of |-> uploads[path].of]}
    ELSE {}

\* file.save(temp_path) of convert_ats, file.save(file_path) of upload_resume
SaveFile(r) ==
    /\ reqPc[r] = "start"
    /\ uploads' = Saved(uploads, PathOf(reqIn[r]), reqIn[r].doc)
    /\ fileLog' = fileLog \cup Access(r, "overwrite", PathOf(reqIn[r]))
    /\ reqPc' = [reqPc EXCEPT ![r] = "saved"]
    /\ UNCHANGED <<reqIn, reqText, reqOut, resumes, ats_resumes, outsideRoutes>>

\* parse_resume_file(path): FileNotFoundError without the file, else what the
\* parser makes of the content the file has now
ParseFile(r) ==
    /\ reqPc[r] = "saved"
    /\ LET path == PathOf(reqIn[r]) IN
       /\ fileLog' = fileLog \cup Access(r, "read", path)
       /\ IF path \notin DOMAIN uploads \/ ParseRaises(uploads[path])
          THEN /\ reqPc' = [reqPc EXCEPT ![r] = "raised"]
               /\ UNCHANGED reqText
          ELSE /\ reqPc' = [reqPc EXCEPT ![r] = "parsed"]
               /\ reqText' = [reqText EXCEPT ![r] = ParsedText(uploads[path])]
    /\ UNCHANGED <<reqIn, reqOut, uploads, resumes, ats_resumes, outsideRoutes>>

\* `if os.path.exists(path): os.remove(path)` of convert_ats
RemoveIfExists(r) ==
    /\ uploads' = Removed(uploads, PathOf(reqIn[r]))
    /\ fileLog' = fileLog \cup Access(r, "delete", PathOf(reqIn[r]))

\* convert_ats: `if not resume_text` and `if resume_text == "__IMAGE_ONLY_PDF__"`
RejectText(r) ==
    /\ reqIn[r].route = "convert_ats"
    /\ reqPc[r] = "parsed"
    /\ reqText[r] \in {"", IMAGE_ONLY_PDF}
    /\ RemoveIfExists(r)
    /\ reqOut' = [reqOut EXCEPT ![r] =
           IF reqText[r] = ""
           THEN Response(400, "Extraction Failed", <<>>)
           ELSE Response(400, "Scanned Document Detected", <<>>)]
    /\ reqPc' = [reqPc EXCEPT ![r] = "done"]
    /\ UNCHANGED <<reqIn, reqText, resumes, ats_resumes, outsideRoutes>>

\* convert_ats: convert_resume and the insert into ats_resumes
ConvertAndStore(r) ==
    /\ reqIn[r].route = "convert_ats"
    /\ reqPc[r] = "parsed"
    /\ reqText[r] \notin {"", IMAGE_ONLY_PDF}
    /\ \E data \in {ConvertData(reqText[r], reqIn[r].user)} :
       /\ ats_resumes' = ats_resumes \cup
              {[request |-> r, user_id |-> reqIn[r].user,
                ats_resume |-> data.ats_resume, sections |-> data.sections]}
       /\ reqOut' = [reqOut EXCEPT ![r] = Response(200, "", data)]
    /\ reqPc' = [reqPc EXCEPT ![r] = "stored"]
    /\ UNCHANGED <<reqIn, reqText, uploads, resumes, fileLog, outsideRoutes>>

\* convert_ats: the clean-up of the temporary file before the 200 response
CleanUp(r) ==
    /\ reqIn[r].route = "convert_ats"
    /\ reqPc[r] = "stored"
    /\ RemoveIfExists(r)
    /\ reqPc' = [reqPc EXCEPT ![r] = "done"]
    /\ UNCHANGED <<reqIn, reqText, reqOut, resumes, ats_resumes, outsideRoutes>>

\* convert_ats: the handler of `except Exception`
ConversionFailed(r) ==
    /\ reqIn[r].route = "convert_ats"
    /\ reqPc[r] = "raised"
    /\ RemoveIfExists(r)
    /\ reqOut' = [reqOut EXCEPT ![r] = Response(500, "Conversion failed", <<>>)]
    /\ reqPc' = [reqPc EXCEPT ![r] = "done"]
    /\ UNCHANGED <<reqIn, reqText, resumes, ats_resumes, outsideRoutes>>

\* upload_resume: the handler of `except Exception` around the parse;
\* os.remove raises without the file and the request ends with a 500
ParseFailed(r) ==
    /\ reqIn[r].route = "upload_resume"
    /\ reqPc[r] = "raised"
    /\ RemoveIfExists(r)
    /\ reqOut' = [reqOut EXCEPT ![r] =
           IF PathOf(reqIn[r]) \in DOMAIN uploads
           THEN Response(400, "Failed to parse file", <<>>)
           ELSE Response(500, "Internal Server Error", <<>>)]
    /\ reqPc' = [reqPc EXCEPT ![r] = "done"]
    /\ UNCHANGED <<reqIn, reqText, resumes, ats_resumes, outsideRoutes>>

\* update_many({'user_id': user_id, 'is_active': True},
\* {'$set': {'is_active': False}})
Archived(collection, user_id) ==
    {IF doc.user_id = user_id THEN [doc EXCEPT !.is_active = FALSE] ELSE doc :
        doc \in collection}

\* upload_resume: the earlier resumes of the user are archived; an exception
\* of update_many is printed and the route goes on
ArchiveOld(r) ==
    /\ reqIn[r].route = "upload_resume"
    /\ reqPc[r] = "parsed"
    /\ \E raised \in BOOLEAN :
           resumes' = IF raised THEN resumes
                      ELSE Archived(resumes, reqIn[r].user)
    /\ reqPc' = [reqPc EXCEPT ![r] = "archived"]
    /\ UNCHANGED <<reqIn, reqText, reqOut, uploads, ats_resumes, fileLog,
                   outsideRoutes>>

\* upload_resume: the record is inserted; os.path.getsize raises without
\* the file
StoreResume(r) ==
    /\ reqIn[r].route = "upload_resume"
    /\ reqPc[r] = "archived"
    /\ IF PathOf(reqIn[r]) \in DOMAIN uploads
       THEN /\ resumes' =
                   resumes
                   \cup {[request |-> r, user_id |-> reqIn[r].user,
                          filename |-> reqIn[r].filename,
                          file_path |-> PathOf(reqIn[r]),
                          content |-> reqText[r],
                          image_only |-> reqText[r] = IMAGE_ONLY_PDF,
                          analyzed |-> FALSE, is_active |-> TRUE]}
            /\ reqOut' = [reqOut EXCEPT ![r] =
                   Response(200, "", UploadData(reqText[r], reqIn[r].filename))]
       ELSE /\ resumes' = resumes
            /\ reqOut' = [reqOut EXCEPT ![r] =
                   Response(500, "Internal Server Error", <<>>)]
    /\ reqPc' = [reqPc EXCEPT ![r] = "done"]
    /\ UNCHANGED <<reqIn, reqText, uploads, ats_resumes, fileLog, outsideRoutes>>

\* analyze_resume on a stored resume: without content it answers 400 and
\* changes nothing, else the analysis runs on the content and is stored
AnalyzeStored(resume) ==
    /\ resume \in resumes
    /\ ~resume.analyzed
    /\ resume.content # ""
    /\ resumes' = (resumes \ {resume}) \cup {[resume EXCEPT !.analyzed = TRUE]}
    /\ UNCHANGED <<reqPc, reqIn, reqText, reqOut, uploads, ats_resumes, fileLog,
                   outsideRoutes>>

NextRoutes ==
    \/ \E resume \in resumes : AnalyzeStored(resume)
    \/ \E r \in Requests :
        \/ SaveFile(r)
        \/ ParseFile(r)
        \/ RejectText(r)
        \/ ConvertAndStore(r)
        \/ CleanUp(r)
        \/ ConversionFailed(r)
        \/ ParseFailed(r)
        \/ ArchiveOld(r)
        \/ StoreResume(r)

SpecRoutes == InitRoutes /\ [][NextRoutes]_vars

\* ---- properties of the routes ----

\* the response a request ends with when it is the only one running
AloneOutcome(req) ==
    IF req.route = "convert_ats"
    THEN CASE req.doc.kind = "corrupt" ->
                  Response(500, "Conversion failed", <<>>)
           [] req.doc.kind = "blank" ->
                  Response(400, "Extraction Failed", <<>>)
           [] req.doc.kind = "scan" ->
                  Response(400, "Scanned Document Detected", <<>>)
           [] req.doc.kind = "text" ->
                  Response(200, "", ConvertData(ParsedText(req.doc), req.user))
    ELSE IF req.doc.kind = "corrupt"
         THEN Response(400, "Failed to parse file", <<>>)
         ELSE Response(200, "", UploadData(ParsedText(req.doc), req.filename))

\* C14: two requests of the pipeline that process different documents, two
\* of convert-ats or two uploads, also of one user, each end with the outcome
\* they would have had alone, and neither reads, overwrites or deletes a
\* file that belongs to the other.  The code does not keep this: both
\* requests of a user who sends two files of one name use one path.
C14_RequestsIsolated ==
    /\ \A r \in Requests :
           reqPc[r] = "done" => reqOut[r] = AloneOutcome(reqIn[r])
    /\ \A entry \in fileLog : entry.of = entry.by

\* C16: whenever extraction classifies a document as image-only, no text for
\* that document reaches the later stages: the upload flow stores no resume
\* record with non-empty content for it, and no analysis or scoring is run
\* on content derived from it.
C16_ImageOnlyHasNoText ==
    \A resume \in resumes :
        resume.image_only => resume.content = "" /\ ~resume.analyzed

\* ---- job matching (app/routes/jobs.py) ----

\* dict.get(key, default)
Field(dict, key, default) == IF key \in DOMAIN dict THEN dict[key] ELSE default

\* int(y) of a run of digits
RECURSIVE IntOf(_)
IntOf(digits) ==
    IF digits = "" THEN 0
    ELSE IntOf(SubSeq(digits, 1, Len(digits) - 1)) * 10
         + (CHOOSE d \in 0..9 : ToString(d) = Ch(digits, Len(digits)))

\* the run of digits that starts at p is followed by \+?\s*year
YearsFollow(text, p) ==
    LET end == SkipWhile(text, p, Digits)
        plus == IF end <= Len(text) /\ Ch(text, end) = "+" THEN end + 1 ELSE end
        word == SkipWhile(text, plus, WhiteSpace)
    IN  word + 3 <= Len(text) /\ SubSeq(text, word, word + 3) = "year"

\* re.findall(r'(\d+)\+?\s*years?', text): the start of every run of digits
\* the pattern matches
req_years_matches(text) ==
    {p \in 1..Len(text) :
        /\ Ch(text, p) \in Digits
        /\ p = 1 \/ Ch(text, p - 1) \notin Digits
        /\ YearsFollow(text, p)}

DefaultYears == 2

YearsAt(text, p) == IntOf(SubSeq(text, p, SkipWhile(text, p, Digits) - 1))

\* the years of the first match instead of the largest
FirstYears(text) ==
    IF req_years_matches(text) = {} THEN DefaultYears
    ELSE YearsAt(text, Min(req_years_matches(text)))

\* req_years: the largest of the matches, 2.0 without a match
req_years(text) ==
    IF req_years_matches(text) = {} THEN DefaultYears
    ELSE Max({YearsAt(text, p) : p \in req_years_matches(text)})

BachelorLevel == 3
MasterLevel == 4
DoctorLevel == 5

\* job_edu_level: the keywords are looked up anywhere in the text
job_edu_level(text) ==
    IF AnyIn(text, <<"phd", "doctorate">>) THEN DoctorLevel
    ELSE IF AnyIn(text, <<"master", "mtech", "ms">>) THEN MasterLevel
    ELSE BachelorLevel

\* job_full_text: title and description in lower case
job_full_text(job) ==
    Lower(Field(job, "title", "")) \o " " \o Lower(Field(job, "description", ""))

\* the skills of all categories of a skills dict, in lower case
LowerSkills(skills) ==
    UNION {{Lower(s) : s \in skills[category].skills} : category \in DOMAIN skills}

\* a score as the fraction of 100 it is
Fraction(num, den) == [num |-> num, den |-> den]

NoSkillsScore == 70

\* skill_score
skill_score(user_skills, job_skills) ==
    IF job_skills # {}
    THEN Fraction(Cardinality(user_skills \cap job_skills), Cardinality(job_skills))
    ELSE Fraction(NoSkillsScore, 100)

\* exp_score and edu_score: 100 at or above what the job asks, else the ratio
RatioScore(have, asked) ==
    IF have >= asked THEN Fraction(1, 1)
    ELSE IF asked > 0 THEN Fraction(have, asked) ELSE Fraction(1, 1)

\* the weights of final_score, in hundredths
job_weights == <<50, 25, 15, 10>>

RECURSIVE Product(_)
Product(numbers) ==
    IF numbers = <<>> THEN 1 ELSE Head(numbers) * Product(Tail(numbers))

\* int(x) for the fraction x = num / den with den > 0: towards zero
Truncated(num, den) == IF num >= 0 THEN num \div den ELSE -((-num) \div den)

\* int(final_score): the weighted sum of the four scores, cut to an integer
final_score(scores) ==
    LET dens == [i \in 1..Len(scores) |-> scores[i].den]
        all == Product(dens)
        part(i) == job_weights[i] * scores[i].num * (all \div scores[i].den)
    IN  Truncated(part(1) + part(2) + part(3) + part(4), all)

\* " ".join(user_skills): the skills in the order the set gives them
skills_text(user_skills) ==
    IF user_skills = {} THEN ""
    ELSE Join(CHOOSE order \in Orderings(user_skills) : TRUE, " ")

\* get_similarity, in percent: 0 when a text is empty, else what the vectors
\* of the two texts give (doc1.similarity(doc2), a cosine, returned as it is)
get_similarity(text1, text2, cosine) ==
    IF text1 = "" \/ text2 = "" THEN 0 ELSE cosine

MaxMatchScore == 100

\* calculate_job_match_score, given the cosine of the two texts in percent
calculate_job_match_score(resume_analysis, job, cosine) ==
    LET text == job_full_text(job)
        job_skills == LowerSkills(extract_skills(text))
        user_skills == LowerSkills(Field(resume_analysis, "skills", <<>>))
        user_years == Field(resume_analysis, "total_years_experience", 0)
        user_edu_level == Field(resume_analysis, "education_level_score", 0)
    IN  Min({MaxMatchScore,
             final_score(<<skill_score(user_skills, job_skills),
                           RatioScore(user_years, req_years(text)),
                           RatioScore(user_edu_level, job_edu_level(text)),
                           Fraction(get_similarity(skills_text(user_skills),
                                                   text, cosine), 100)>>)})

\* ---- the routes that score or match (app/routes/resume.py, ----
\* ---- app/routes/jobs.py), one request after the other      ----

\* an engine call ended with an exception
Failed == [failed |-> TRUE]

TheUser == "u1"
TheResume == "r1"

MinAnalyzeText == 100

\* the content of the stored resume, the text given to analyze_text
Contents == {"", "Python, Flask, MongoDB and AWS",
             "Python and React. " \o Rep("w ", MinAnalyzeText \div 2)}

\* total_years_experience and education_level_score of a candidate
Candidates == {<<0, 0>>, <<1, 4>>, <<5, 3>>}

\* what analyze_resume can return for a text: the skills of extract_skills,
\* the years and the education level its entity recognition arrives at
Analyses(text) ==
    {[skills |-> skills, total_years_experience |-> candidate[1],
      education_level_score |-> candidate[2], match_score |-> 0] :
        skills \in {extract_skills(text)}, candidate \in Candidates}

\* the fallback jobs of get_job_recommendations
mock_jobs == <<
    [title |-> "Senior Software Engineer",
     company |-> [display_name |-> "TechGlobal Solutions"],
     description |-> "Looking for a full-stack engineer with experience in Python, React, and AWS cloud architecture."],
    [title |-> "Full Stack Developer",
     company |-> [display_name |-> "Innovate AI"],
     description |-> "Join our fast-paced startup to build cutting-edge AI features using MERN stack and Python."],
    [title |-> "System Architect",
     company |-> [display_name |-> "Enterprise Systems"],
     description |-> "Lead the design of scalable backend systems and mentor junior developers in best practices."]
>>

\* jobs fetch_adzuna_jobs can return
BackendJob ==
    [title |-> "Backend Engineer (Python)",
     company |-> [display_name |-> "Acme"],
     description |-> "We are looking for a Python expert with Flask and Cloud experience (3+ years)."]

DesignJob ==
    [title |-> "Graphic Designer",
     company |-> [display_name |-> "Studio"],
     description |-> "Needs 3 years experience in Adobe Photoshop and Figma."]

DataJob ==
    [title |-> "Data Engineer",
     company |-> [display_name |-> "Lake"],
     description |-> "2 years of Docker, 10+ years overall, PhD welcome."]

AdzunaResults == {<<>>, <<BackendJob>>, <<DesignJob, BackendJob>>, <<DataJob>>}

\* the cosine of the vectors of two texts, in percent
Similarities == {-20, 0, 60}

\* how the scoring of one job can end: with a similarity or with an exception
ScoringOutcomes == {[similarity |-> s] : s \in Similarities} \cup {Failed}

DefaultMinMatch == 40
MinMatches == {0, DefaultMinMatch}

DefaultLimit == 10
Limits == {1, DefaultLimit}

\* the resume document upload_resume stored
ResumeDocument(content) ==
    [id |-> TheResume, user_id |-> TheUser, filename |-> "cv.pdf",
     content |-> content, analyzed |-> FALSE, analysis_results |-> <<>>,
     ats_score |-> -1]

\* the document after analyze_resume stored an analysis of its content
Analyzed(resume, analysis) ==
    [resume EXCEPT !.analyzed = TRUE, !.analysis_results = analysis]

\* the resumes collection the request finds: empty, or the resume of the
\* user as uploaded, or as an earlier request analyzed it
StoredResumes ==
    {{}} \cup {{ResumeDocument(content)} : content \in Contents}
    \cup UNION {{{Analyzed(ResumeDocument(content), analysis)} :
                    analysis \in Analyses(content)} :
                content \in Contents \ {""}}

InitJobs ==
    /\ jobPc = "waiting"
    /\ jobReq = <<>>
    /\ jobOut = <<>>
    /\ \E stored \in StoredResumes :
           jobDb = [resumes |-> stored, ats_results |-> {},
                    job_recommendations |-> {}]
    /\ ExtractorIdle
    /\ SegmenterIdle
    /\ GapIdle
    /\ SkillsIdle
    /\ ScorerIdle
    /\ RoutesIdle
    /\ AuthIdle
    /\ SkillAnalysisIdle

\* find_one({'_id': resume_id, 'user_id': user_id})
FindResume(resume_id) ==
    {resume \in jobDb.resumes : resume.id = resume_id /\ resume.user_id = TheUser}

\* update_one({'_id': resume_id}, {'$set': ...}) with the changed document
UpdatedResumes(resume, changed) == (jobDb.resumes \ {resume}) \cup {changed}

\* the request is answered: its inputs, its response and the collections
Answered(request, response, resumes_after, ats_after, recommendations_after) ==
    /\ jobPc' = "answered"
    /\ jobReq' = request
    /\ jobOut' = response
    /\ jobDb' = [resumes |-> resumes_after, ats_results |-> ats_after,
                 job_recommendations |-> recommendations_after]
    /\ UNCHANGED outsideJobs

\* an answer that writes nothing
Refused(request, status, error) ==
    Answered(request, Response(status, error, None), jobDb.resumes,
             jobDb.ats_results, jobDb.job_recommendations)

\* analyze_resume (POST /analyze/<resume_id>)
AnalyzeResume ==
    /\ jobPc = "waiting"
    /\ LET found == FindResume(TheResume) IN
       IF found = {}
       THEN Refused([route |-> "analyze", raised |-> FALSE], 404,
                    "Resume not found")
       ELSE \E resume \in found :
            IF resume.content = ""
            THEN Refused([route |-> "analyze", raised |-> FALSE], 400,
                         "Missing content")
            ELSE \E outcome \in {Failed} \cup Analyses(resume.content) :
                 LET request == [route |-> "analyze",
                                 raised |-> outcome = Failed] IN
                 IF outcome = Failed
                 THEN Refused(request, 500, "Analysis engine failure")
                 ELSE Answered(request,
                          Response(200, None,
                                   [resume_id |-> resume.id,
                                    skills |-> outcome.skills,
                                    match_score |-> outcome.match_score]),
                          UpdatedResumes(resume, Analyzed(resume, outcome)),
                          jobDb.ats_results, jobDb.job_recommendations)

\* calculate_ats_score (POST /ats-score)
AtsScore ==
    /\ jobPc = "waiting"
    /\ LET found == FindResume(TheResume) IN
       IF found = {}
       THEN Refused([route |-> "ats_score", raised |-> FALSE], 404,
                    "Resume not found")
       ELSE \E resume \in found :
            \E outcome \in {Failed} \cup calculate_ats_score(resume.content, "") :
                 LET request == [route |-> "ats_score",
                                 raised |-> outcome = Failed] IN
                 IF outcome = Failed
                 THEN Refused(request, 500, "ATS scoring failure")
                 ELSE Answered(request, Response(200, None, outcome),
                          UpdatedResumes(resume,
                              [resume EXCEPT !.ats_score = outcome.overall_score]),
                          {[user_id |-> TheUser, resume_id |-> resume.id,
                            overall_score |-> outcome.overall_score,
                            breakdown |-> outcome.breakdown,
                            recommendations |-> outcome.recommendations]},
                          jobDb.job_recommendations)

\* analyze_text (POST /analyze-text): an exception of the engines is not
\* caught in the route and reaches the handler of the application for 500
AnalyzeText ==
    /\ jobPc = "waiting"
    /\ \E text \in Contents :
           IF text = "" \/ Len(text) < MinAnalyzeText
           THEN Refused([route |-> "analyze_text", raised |-> FALSE], 400,
                        "Invalid input")
           ELSE \E analysis \in {Failed} \cup Analyses(text),
                   ats_results \in {Failed} \cup calculate_ats_score(text, "") :
                LET request == [route |-> "analyze_text",
                                raised |-> Failed \in {analysis, ats_results}]
                IN  IF request.raised
                    THEN Refused(request, 500, "Internal server error")
                    ELSE Answered(request,
                             Response(200, None,
                                      [skills |-> analysis.skills,
                                       ats_score |-> ats_results.overall_score,
                                       ats_breakdown |-> ats_results.breakdown,
                                       recommendations |->
                                           ats_results.recommendations]),
                             jobDb.resumes, jobDb.ats_results,
                             jobDb.job_recommendations)

\* the score of a job that could not be scored is 0
FailedScore == 0

\* the try around calculate_job_match_score in get_job_recommendations
match_score(analysis_results, job, outcome) ==
    IF outcome = Failed THEN FailedScore
    ELSE calculate_job_match_score(analysis_results, job, outcome.similarity)

\* matched_jobs.sort(key=match_score, reverse=True), a stable sort
RECURSIVE SortByMatch(_)
SortByMatch(jobs) ==
    IF jobs = <<>> THEN <<>>
    ELSE LET best == Max({jobs[i].match_score : i \in 1..Len(jobs)})
             first == Min({i \in 1..Len(jobs) : jobs[i].match_score = best})
         IN  <<jobs[first]>>
             \o SortByMatch(SubSeq(jobs, 1, first - 1)
                            \o SubSeq(jobs, first + 1, Len(jobs)))

\* job_data of one job
job_data(job) ==
    [id |-> job.title, title |-> job.title,
     company |-> job.company.display_name, match_score |-> job.match_score]

\* update_one({'user_id', 'job_id'}, ..., upsert=True) for every job returned
SavedRecommendations(formatted_jobs) ==
    {saved \in jobDb.job_recommendations :
        \A i \in 1..Len(formatted_jobs) : saved.job_id # formatted_jobs[i].id}
    \cup {[user_id |-> TheUser,
           job_id |-> formatted_jobs[i].id,
           title |-> formatted_jobs[i].title,
           company |-> formatted_jobs[i].company,
           match_score |-> formatted_jobs[i].match_score] :
             i \in 1..Len(formatted_jobs)}

\* get_job_recommendations (GET /recommendations)
GetJobRecommendations ==
    /\ jobPc = "waiting"
    /\ \E fetched \in AdzunaResults, min_match \in MinMatches, limit \in Limits :
         LET analyzed == {resume \in jobDb.resumes :
                             resume.user_id = TheUser /\ resume.analyzed}
             analysis_results ==
                 IF analyzed = {} THEN <<>>
                 ELSE (CHOOSE resume \in analyzed : TRUE).analysis_results
             is_fallback == fetched = <<>>
             adzuna_jobs == IF is_fallback THEN mock_jobs ELSE fetched
         IN  \E outcomes \in [1..Len(adzuna_jobs) -> ScoringOutcomes] :
             \E scores \in {[i \in 1..Len(adzuna_jobs) |->
                               match_score(analysis_results, adzuna_jobs[i],
                                           outcomes[i])]} :
               LET scored == [i \in 1..Len(adzuna_jobs) |->
                                 [title |-> adzuna_jobs[i].title,
                                  company |-> adzuna_jobs[i].company,
                                  match_score |-> scores[i]]]
                   matched_jobs ==
                       Take(SortByMatch(Filter(scored,
                                {job \in Range(scored) :
                                    is_fallback \/ job.match_score >= min_match})),
                            limit)
                   formatted_jobs == [i \in 1..Len(matched_jobs) |->
                                         job_data(matched_jobs[i])]
               IN  Answered([route |-> "recommendations",
                             raised |-> Failed \in Range(outcomes),
                             jobs |-> adzuna_jobs, outcomes |-> outcomes,
                             scores |-> scores,
                             min_match |-> min_match, limit |-> limit],
                            Response(200, None,
                                     [jobs |-> formatted_jobs,
                                      total |-> Len(formatted_jobs),
                                      is_mock |-> is_fallback]),
                            jobDb.resumes, jobDb.ats_results,
                            SavedRecommendations(formatted_jobs))

NextJobs ==
    \/ AnalyzeResume
    \/ AtsScore
    \/ AnalyzeText
    \/ GetJobRecommendations

SpecJobs == InitJobs /\ [][NextJobs]_vars

\* ---- properties of the routes that score or match ----

\* C15: whenever scoring or matching raises an unexpected exception while a
\* request is served (analyze, ats-score, analyze-text, job recommendations),
\* the caller receives an error for that request: the exception is not
\* replaced by a default value, and no score derived from the failed step is
\* returned or stored
C15_FailureSurfaced ==
    jobPc = "answered" /\ jobReq.raised =>
        /\ jobOut.status = 500
        /\ jobOut.error # None
        /\ jobDb.ats_results = {}
        /\ jobDb.job_recommendations = {}

\* the analysis the recommendations were matched against
UsedAnalysis ==
    IF \E resume \in jobDb.resumes : resume.analyzed
    THEN (CHOOSE resume \in jobDb.resumes : resume.analyzed).analysis_results
    ELSE <<>>

\* the largest N of the "N years" of a text, 2 when it has none
LargestYears(text) ==
    LET mentioned == {YearsAt(text, p) : p \in req_years_matches(text)}
    IN  IF mentioned = {} THEN 2
        ELSE CHOOSE n \in mentioned : \A m \in mentioned : m <= n

\* 100 when have is at least asked, have / asked * 100 otherwise, as a fraction
AtLeastOrRatio(have, asked) ==
    IF have >= asked THEN <<100, 1>> ELSE <<have * 100, asked>>

\* score is what the four scores of a job, each a fraction, weigh together:
\* skills * 0.50 + experience * 0.25 + education * 0.15 + similarity * 0.10,
\* truncated to an integer and capped at 100
WeighsTo(score, skills, experience, education, similarity) ==
    LET den == 100 * skills[2] * experience[2] * education[2]
        num == 50 * skills[1] * experience[2] * education[2]
               + 25 * experience[1] * skills[2] * education[2]
               + 15 * education[1] * skills[2] * experience[2]
               + 10 * similarity * skills[2] * experience[2] * education[2]
    IN  \/ score = 100 /\ num >= 100 * den
        \/ /\ score < 100 /\ num >= 0
           /\ score * den <= num /\ num < (score + 1) * den
        \/ /\ num < 0
           /\ (score - 1) * den < num /\ num <= score * den

\* score is the match score the candidate has for the job
IsMatchScore(score, analysis, job, similarity) ==
    LET text == job_full_text(job)
        wanted == {Lower(s) : s \in NlpSkills(extract_skills(text))}
        offered == LowerSkills(Field(analysis, "skills", <<>>))
    IN  WeighsTo(score,
            IF wanted = {} THEN <<70, 1>>
            ELSE <<100 * Cardinality(wanted \cap offered), Cardinality(wanted)>>,
            AtLeastOrRatio(Field(analysis, "total_years_experience", 0),
                           LargestYears(text)),
            AtLeastOrRatio(Field(analysis, "education_level_score", 0),
                           job_edu_level(text)),
            IF offered = {} THEN 0 ELSE similarity)

SkillsBefore == GetOr(_extract_sections(_clean_text(segText)), "skills")

\* what the integration added behind the previous skills content
SkillsAdded ==
    SubSeq(Get(segSections, "skills"), Len(SkillsBefore) + 1,
           Len(Get(segSections, "skills")))

\* how many of the added lines are the bullet of the keyword
TimesAppended(keyword) ==
    LET lines == Split(SkillsAdded, "\n")
    IN  Cardinality({i \in 1..Len(lines) :
                        Lower(Strip(lines[i])) = "- " \o Lower(keyword)})

\* C17: after the rebuild with a list of extra keywords, every extra keyword
\* that was not already listed in the skills section is appended to it
\* exactly once (also when the list repeats a keyword and when there was no
\* skills section before), a keyword already listed is not appended again,
\* and the previous skills content is kept unchanged as a prefix
C17_KeywordsAppendedOnce ==
    segPc = "converted" /\ segKeywords # <<>> =>
        /\ Has(segSections, "skills")
        /\ StartsWith(Get(segSections, "skills"), SkillsBefore)
        /\ \A keyword \in Range(segKeywords) :
               TimesAppended(keyword) =
                   IF DelimitedOccurrence(SkillsBefore, keyword) THEN 0 ELSE 1

\* ---- properties of the coverage score ----

\* the text has a match of a skill of the category
HasMatch(text, category) ==
    \E i \in 1..Len(SkillsOf(category)) :
        DelimitedOccurrence(text, SkillsOf(category)[i])

\* C19: for every text, extract_skills returns one record for every category
\* of the database with at least one match and none for a category without
\* a match; in each record count is the number of distinct skills listed,
\* count never exceeds the number of phrases of the category, and the
\* coverage score is min(100, floor(count * 100 / |category|) + 50), hence
\* in [50, 100]
C19_CoverageScore ==
    matchPc \in {"resume skills", "done"} =>
        \A i \in 1..Len(skill_database) :
            LET category == skill_database[i].category
                phrases == Len(skill_database[i].skills)
            IN  /\ category \in DOMAIN matchNlp <=> HasMatch(matchText, category)
                /\ category \in DOMAIN matchNlp =>
                       LET record == matchNlp[category] IN
                       /\ record.skills # {}
                       /\ record.count = Cardinality(record.skills)
                       /\ record.count <= phrases
                       /\ record.score = 100 =>
                              phrases * 50 <= record.count * 100
                       /\ record.score \in 50..100
                       /\ record.score < 100 =>
                              /\ phrases * (record.score - 50)
                                     <= record.count * 100
                              /\ record.count * 100
                                     < phrases * (record.score - 49)

\* ---- properties of the match percentage ----

\* no integer is nearer to matched / total * 100 than percentage
NearestPercent(percentage, matched, total) ==
    LET off == percentage * total - 100 * matched
    IN  2 * Abs(off) <= total

\* C20: for every resume skill list and job description, match_percentage
\* is matched / total_job_skills * 100 rounded to the nearest integer when a
\* job skill is found and 0 otherwise, it lies in [0, 100], matched_skills
\* is the length of matched_skills_list, and matched_skills plus the number
\* of missing skills before the lists are cut is total_job_skills
C20_MatchPercentage ==
    /\ gapPc \in {"analyzed", "defaulted"} =>
           /\ gapRet.match_percentage \in 0..100
           /\ gapRet.matched_skills = Len(gapRet.matched_skills_list)
           /\ gapRet.total_job_skills = 0 => gapRet.match_percentage = 0
    /\ gapPc = "analyzed" =>
           /\ gapRet.total_job_skills
                  = Cardinality(_extract_skills_from_text(gapJob))
           /\ gapRet.total_job_skills > 0 =>
                  NearestPercent(gapRet.match_percentage,
                                 gapRet.matched_skills,
                                 gapRet.total_job_skills)
           /\ gapRet.matched_skills + Len(gapLocals.missing_critical)
                  + Len(gapLocals.missing_recommended)
                  + Len(gapLocals.missing_soft)
              = gapRet.total_job_skills

\* two of three job skills matched, 66.67 rounded up to 67
C20_Witness ==
    /\ gapPc = "analyzed"
    /\ gapRet.total_job_skills = 3
    /\ gapRet.matched_skills = 2
    /\ gapRet.match_percentage = 67
    /\ Len(gapLocals.missing_critical) + Len(gapLocals.missing_recommended)
           + Len(gapLocals.missing_soft) = 1


\* ---- the reconstructed text (C21) ----

\* the keys of the canonical order that the section map holds
PresentSections == Filter(section_order, Keys(segSections))

\* what the text shows for one section of the map
SectionBlock(k) ==
    Upper(k) \o "\n" \o Rep("=", Len(Upper(k))) \o "\n" \o Get(segSections, k)

\* C21: the reconstructed text is the blocks of exactly the sections of the
\* map, in the canonical order, each the upper-cased key, an underline of
\* the same length and the content of the section, two line breaks between
\* blocks (white space at the very end of the text is not kept)
C21_CanonicalOrder ==
    segPc = "converted" =>
        /\ Keys(segSections) \subseteq Range(section_order)
        /\ segAts = Strip(Join([i \in 1..Len(PresentSections) |->
                                  SectionBlock(PresentSections[i])], "\n\n"))

\* a map whose skills section was found before its education section
C21_Witness ==
    /\ segPc = "converted"
    /\ \E i, j \in 1..Len(segSections) :
           /\ i < j
           /\ segSections[i].key = "skills"
           /\ segSections[j].key = "education"
    /\ Find(segAts, "EDUCATION\n=========\n", 1) > 0
    /\ Find(segAts, "EDUCATION\n=========\n", 1) < Find(segAts, "SKILLS\n======\n", 1)

(* ------------------------------------------------------------------ *)
(* accounts: app/routes/auth.py, app/routes/admin.py, app/models/user.py *)

HexChars == Digits \cup {"a", "b", "c", "d", "e", "f", "A", "B", "C", "D", "E", "F"}

ObjectIdLen == 24

\* ObjectId.is_valid of a string: 24 hexadecimal digits of either case
is_valid(oid) == Len(oid) = ObjectIdLen /\ AllIn(oid, 1, Len(oid), HexChars)

\* str(ObjectId(oid)): the twelve bytes, written in lower-case digits
ObjectId(oid) == Lower(oid)

DEMO_USER_ID == "507f191e810c19729de860ea"

\* the values ObjectId() gives to the users register creates, in order
FreshIds == <<"65f0a1b2c3d4e5f601234501", "65f0a1b2c3d4e5f601234502">>

\* generate_password_hash and check_password_hash
generate_password_hash(password) == "pbkdf2:sha256$" \o password
check_password_hash(password_hash, password) ==
    password_hash = generate_password_hash(password)

\* ^[a-zA-Z0-9._%+-]+@[a-zA-Z0-9.-]+\.[a-zA-Z]{2,}$ of register
email_regex(email) ==
    \E at \in 2..Len(email) : \E dot \in (at + 2)..(Len(email) - 2) :
        /\ Ch(email, at) = "@"
        /\ Ch(email, dot) = "."
        /\ AllIn(email, 1, at - 1, LocalChars)
        /\ AllIn(email, at + 1, dot - 1, DomainChars)
        /\ AllIn(email, dot + 1, Len(email), Letters)

MinPassword == 6

\* the fields of a users document the routes read or write
UserDocument(id, email, password, role) ==
    [id |-> id, email |-> email,
     password_hash |-> generate_password_hash(password),
     role |-> role, status |-> "active"]

\* mongo.db.users.find_one by e-mail and by _id: the positions that match
ByEmail(db, email) == {i \in 1..Len(db) : db[i].email = email}
ById(db, id) == {i \in 1..Len(db) : db[i].id = id}

\* update_one({'_id': id}, {'$set': fields}) on the users collection
UpdateOne(db, id, fields) ==
    [i \in 1..Len(db) |->
        IF i = Min(ById(db, id)) /\ ById(db, id) # {}
        THEN [db[i] EXCEPT
                 !.role = IF Has(fields, "role") THEN Get(fields, "role") ELSE @,
                 !.status = IF Has(fields, "status") THEN Get(fields, "status") ELSE @]
        ELSE db[i]]

\* create_access_token and create_refresh_token
NoToken == [type |-> "none", sub |-> "", role |-> ""]
create_access_token(identity, role) ==
    [type |-> "access", sub |-> identity, role |-> role]
create_refresh_token(identity) ==
    [type |-> "refresh", sub |-> identity, role |-> ""]

\* what the client keeps of the responses: the tokens of its last login or
\* registration, the access token replaced by each successful refresh
NoSession == [access |-> NoToken, refresh |-> NoToken, from |-> "none",
              refreshed |-> FALSE]
Session(identity, role, from) ==
    [access |-> create_access_token(identity, role),
     refresh |-> create_refresh_token(identity),
     from |-> from, refreshed |-> FALSE]

RegisterEmails == {"", "ann", " Ann@X.io ", "demo@example.com"}
RegisterPasswords == {"abc", "secret1"}
RegisterNames == {"", "Ann"}
LoginEmails == {"", "ann@x.io", "Demo@example.com"}
LoginPasswords == {"secret1", "demo123"}
PathIds == {"me", DEMO_USER_ID, Upper(DEMO_USER_ID), FreshIds[1], FreshIds[2]}
PatchBodies == {<<>>,
                <<[key |-> "role", content |-> "admin"]>>,
                <<[key |-> "role", content |-> "user"]>>,
                <<[key |-> "status", content |-> "inactive"]>>,
                <<[key |-> "status", content |-> "deleted"]>>}

InitAuth ==
    /\ userDb = <<>>
    /\ held = NoSession
    /\ authOut = [route |-> "none", status |-> 0, caller |-> "", target |-> ""]
    /\ ExtractorIdle
    /\ SegmenterIdle
    /\ GapIdle
    /\ SkillsIdle
    /\ ScorerIdle
    /\ RoutesIdle
    /\ JobsIdle
    /\ SkillAnalysisIdle

\* the response of a route, and what it leaves in the collection and with
\* the client
Respond(route, status, caller, target, db_after, held_after) ==
    /\ authOut' = [route |-> route, status |-> status, caller |-> caller,
                   target |-> target]
    /\ userDb' = db_after
    /\ held' = held_after
    /\ UNCHANGED outsideAuth

\* POST /api/auth/register
Register(raw_email, password, raw_name) ==
    LET email == Lower(Strip(raw_email))
        name == Strip(raw_name)
        id == FreshIds[Len(userDb) + 1]
    IN  IF email = "" \/ Len(password) < MinPassword \/ name = ""
           \/ ~email_regex(email)
        THEN Respond("register", 400, "", email, userDb, held)
        ELSE IF ByEmail(userDb, email) # {}
        THEN Respond("register", 409, "", email, userDb, held)
        ELSE /\ Len(userDb) < Len(FreshIds)
             /\ Respond("register", 201, "", email,
                        Append(userDb, UserDocument(id, email, password, "user")),
                        Session(id, "user", "register"))

\* the demo branch of login
DemoLogin ==
    LET found == ByEmail(userDb, "demo@example.com")
        db_after ==
            IF found = {}
            THEN Append(userDb, UserDocument(DEMO_USER_ID, "demo@example.com",
                                             "demo123", "admin"))
            ELSE [userDb EXCEPT ![Min(found)].role = "admin"]
    IN  Respond("login", 200, "", "demo@example.com", db_after,
                Session(DEMO_USER_ID, "admin", "demo"))

\* POST /api/auth/login
Login(raw_email, password) ==
    LET email == Lower(Strip(raw_email))
        found == ByEmail(userDb, email)
    IN  IF email = "" \/ password = ""
        THEN Respond("login", 400, "", email, userDb, held)
        ELSE IF email = "demo@example.com" /\ password = "demo123"
        THEN DemoLogin
        ELSE IF found = {}
        THEN Respond("login", 401, "", email, userDb, held)
        ELSE LET user == userDb[Min(found)] IN
             IF ~check_password_hash(user.password_hash, password)
             THEN Respond("login", 401, "", email, userDb, held)
             ELSE Respond("login", 200, "", email, userDb,
                          Session(user.id, user.role, "login"))

\* POST /api/auth/refresh, with the refresh token the client holds
Refresh ==
    LET user_id == held.refresh.sub
        found == ById(userDb, ObjectId(user_id))
    IN  IF held.refresh.type # "refresh"
        THEN Respond("refresh", 401, "", "", userDb, held)
        ELSE IF found = {}
        THEN Respond("refresh", 401, user_id, "", userDb, held)
        ELSE LET user == userDb[Min(found)] IN
             Respond("refresh", 200, user_id, "", userDb,
                     [held EXCEPT !.access = create_access_token(user.id, user.role),
                                  !.refreshed = TRUE])

\* GET /api/auth/validate, with the access token the client holds
ValidateToken ==
    LET user_id == held.access.sub IN
    IF held.access.type # "access"
    THEN Respond("validate", 401, "", "", userDb, held)
    ELSE IF ~is_valid(user_id) \/ ById(userDb, ObjectId(user_id)) = {}
    THEN Respond("validate", 401, user_id, "", userDb, held)
    ELSE Respond("validate", 200, user_id, "", userDb, held)

\* the status admin_required answers with before the route runs, 0 to go on
admin_required ==
    IF held.access.type # "access" THEN 401
    ELSE IF held.access.role # "admin" THEN 403
    ELSE 0

\* PATCH /api/admin/users/<user_id>
UpdateUserAdmin(user_id, data) ==
    LET current_admin_id == held.access.sub IN
    IF admin_required # 0
    THEN Respond("update_user", admin_required, "", user_id, userDb, held)
    ELSE IF ~is_valid(user_id)
    THEN Respond("update_user", 400, current_admin_id, user_id, userDb, held)
    ELSE IF ~Has(data, "role") /\ ~Has(data, "status")
    THEN Respond("update_user", 400, current_admin_id, user_id, userDb, held)
    ELSE IF ById(userDb, ObjectId(user_id)) = {}
    THEN Respond("update_user", 404, current_admin_id, user_id, userDb, held)
    ELSE Respond("update_user", 200, current_admin_id, user_id,
                 UpdateOne(userDb, ObjectId(user_id), data), held)

\* `user_id == current_admin_id` of delete_user_admin
IsSelf(user_id, current_admin_id) == user_id = current_admin_id

\* DELETE /api/admin/users/<user_id>
DeleteUserAdmin(user_id) ==
    LET current_admin_id == held.access.sub IN
    IF admin_required # 0
    THEN Respond("delete_user", admin_required, "", user_id, userDb, held)
    ELSE IF ~is_valid(user_id)
    THEN Respond("delete_user", 400, current_admin_id, user_id, userDb, held)
    ELSE IF IsSelf(user_id, current_admin_id)
    THEN Respond("delete_user", 400, current_admin_id, user_id, userDb, held)
    ELSE IF ById(userDb, ObjectId(user_id)) = {}
    THEN Respond("delete_user", 404, current_admin_id, user_id, userDb, held)
    ELSE Respond("delete_user", 200, current_admin_id, user_id,
                 UpdateOne(userDb, ObjectId(user_id),
                           <<[key |-> "status", content |-> "deleted"]>>),
                 held)

NextAuth ==
    \/ \E raw_email \in RegisterEmails, password \in RegisterPasswords,
          raw_name \in RegisterNames :
           Register(raw_email, password, raw_name)
    \/ \E raw_email \in LoginEmails, password \in LoginPasswords :
           Login(raw_email, password)
    \/ Refresh
    \/ ValidateToken
    \/ \E user_id \in PathIds, data \in PatchBodies :
           UpdateUserAdmin(user_id, data)
    \/ \E user_id \in PathIds : DeleteUserAdmin(user_id)

SpecAuth == InitAuth /\ [][NextAuth]_vars

\* ---- properties of the accounts ----

\* the status of the account with the given id, "none" without one
StatusOf(db, id) ==
    IF ById(db, id) = {} THEN "none" ELSE db[Min(ById(db, id))].status

\* the step is the admin request `route`, let through by admin_required
AdminRequest(route) ==
    /\ authOut'.route = route
    /\ authOut'.status \notin {401, 403}

\* C22: no admin request marks the account of the admin who issued it as
\* deleted, and a DELETE on the admin's own user id is answered 400 and
\* leaves the collection unchanged
C22_NoSelfDeletion ==
    [][/\ AdminRequest("delete_user") \/ AdminRequest("update_user") =>
              (StatusOf(userDb, authOut'.caller) # "deleted" =>
                   StatusOf(userDb', authOut'.caller) # "deleted")
       /\ (/\ AdminRequest("delete_user")
           /\ is_valid(authOut'.target)
           /\ ObjectId(authOut'.target) = authOut'.caller) =>
              authOut'.status = 400 /\ userDb' = userDb]_vars

\* C23: the refresh token of a successful login, the demo login included,
\* is accepted by /refresh, and the access token /refresh gave for it is
\* accepted by /validate
C23_RefreshAfterLogin ==
    held.from \in {"login", "demo"} =>
        /\ authOut.route = "refresh" => authOut.status = 200
        /\ (authOut.route = "validate" /\ held.refreshed) => authOut.status = 200

(* ------------------------------------------------------------------ *)
(* skill analysis: skill_analysis of app/routes/resume.py               *)

\* the _id of the resumes upload_resume stored
ResumeIds == <<"65f0a1b2c3d4e5f601234511", "65f0a1b2c3d4e5f601234512">>

\* the parameters of MissingSkillsAnalyzer.analyze after self
analyze_parameters == <<"resume_skills", "job_description">>

\* the arguments of the call of analyze in skill_analysis
SkillAnalysisCall == [positional |-> 2, keywords |-> {"category"}]

\* Python binds the arguments of a call: the positional ones to the leading
\* parameters, each keyword to a parameter left, every parameter (none has
\* a default) to a value; a call that does not bind raises TypeError
Binds(parameters, call) ==
    /\ call.positional <= Len(parameters)
    /\ call.keywords \subseteq
           {parameters[i] : i \in (call.positional + 1)..Len(parameters)}
    /\ call.positional + Cardinality(call.keywords) = Len(parameters)

\* the resumes collection the requests find
OwnedResumes ==
    {{}} \cup
    {{[id |-> ResumeIds[1], user_id |-> "u1", content |-> content]} :
        content \in Contents}
    \cup
    {{[id |-> ResumeIds[1], user_id |-> "u1", content |-> content],
      [id |-> ResumeIds[2], user_id |-> "u2", content |-> content]} :
        content \in Contents \ {""}}

\* resume_id and job_description of the request body
SkillRequestIds ==
    {"", "latest", ResumeIds[1], Upper(ResumeIds[1]), ResumeIds[2]}
SkillJobDescriptions == {"", "Python and Docker"}

InitSkillAnalysis ==
    /\ saResumes \in OwnedResumes
    /\ skill_analysis = {}
    /\ saOut = [status |-> 0, error |-> "", user_id |-> "", resume_id |-> "",
                job_description |-> "", raised |-> "none"]
    /\ ExtractorIdle
    /\ SegmenterIdle
    /\ GapIdle
    /\ SkillsIdle
    /\ ScorerIdle
    /\ RoutesIdle
    /\ JobsIdle
    /\ AuthIdle

\* update_one({'resume_id': ..., 'user_id': ...}, {'$set': skill_data},
\* upsert=True)
Upsert(collection, skill_data) ==
    {record \in collection :
        ~(record.resume_id = skill_data.resume_id
          /\ record.user_id = skill_data.user_id)}
    \cup {skill_data}

\* the response of skill_analysis and what it leaves in the collection
SkillAnswer(status, error, request, raised, collection_after) ==
    /\ saOut' = [status |-> status, error |-> error, user_id |-> request[1],
                 resume_id |-> request[2], job_description |-> request[3],
                 raised |-> raised]
    /\ skill_analysis' = collection_after
    /\ UNCHANGED <<saResumes, outsideSkillAnalysis>>

\* POST /api/resume/skill-analysis
SkillAnalysis(user_id, resume_id, job_description) ==
    LET found == {resume \in saResumes :
                     resume.id = ObjectId(resume_id) /\ resume.user_id = user_id}
        request == <<user_id, resume_id, job_description>>
    IN  IF resume_id = ""
        THEN SkillAnswer(400, "resume_id is required", request, "none", skill_analysis)
        ELSE IF ~is_valid(resume_id)
        THEN SkillAnswer(400, "Invalid resume ID", request, "none", skill_analysis)
        ELSE IF found = {}
        THEN SkillAnswer(404, "Resume not found", request, "none", skill_analysis)
        ELSE \E resume \in found :
             \E analysis_results \in {Failed} \cup Analyses(resume.content) :
                 IF analysis_results = Failed
                 THEN SkillAnswer(500, "Analysis engine failure", request, "engine", skill_analysis)
                 ELSE IF ~Binds(analyze_parameters, SkillAnalysisCall)
                 THEN SkillAnswer(500, "Analysis engine failure", request, "TypeError", skill_analysis)
                 ELSE SkillAnswer(200, "", request, "none",
                          Upsert(skill_analysis,
                                 [user_id |-> user_id, resume_id |-> resume_id,
                                  skills |-> analysis_results.skills,
                                  match_score |-> analysis_results.match_score]))

NextSkillAnalysis ==
    \E user_id \in Users, resume_id \in SkillRequestIds,
       job_description \in SkillJobDescriptions :
        SkillAnalysis(user_id, resume_id, job_description)

SpecSkillAnalysis == InitSkillAnalysis /\ [][NextSkillAnalysis]_vars

\* the records of skill_analysis for a resume and a user
SkillRecords(resume_id, user_id) ==
    {record \in skill_analysis :
        record.resume_id = resume_id /\ record.user_id = user_id}

\* the request addressed a resume that exists and is owned by the caller
OwnResumeAddressed ==
    /\ is_valid(saOut.resume_id)
    /\ \E resume \in saResumes :
           resume.id = ObjectId(saOut.resume_id) /\ resume.user_id = saOut.user_id

\* C24: a skill-analysis request for a resume that exists and is owned by
\* the caller, the engines of the NLP analysis working, is answered 200 and
\* leaves exactly one skill_analysis record for the pair of resume and user,
\* also when the request is a repetition
C24_OneSkillRecord ==
    (OwnResumeAddressed /\ saOut.raised # "engine") =>
        /\ saOut.status = 200
        /\ Cardinality(SkillRecords(saOut.resume_id, saOut.user_id)) = 1

\* ---- the image-only outcome and the engine chain (C25) ----

\* C25: the image-only outcome is returned only after every engine of the
\* chain was attempted, none raised and each yielded empty text
C25_ImageOnlyAfterAllEngines ==
    (ParsingPdf /\ ImageOnlyReturned) =>
        /\ Len(attempts) = Len(Engines)
        /\ \A i \in 1..Len(attempts) :
               ~attempts[i].raised /\ Strip(attempts[i].text) = ""

\* ---- the protected zone of the line walk (C26) ----

\* non_empty_line_count at the line of position i of the history
CountAt(i) ==
    Cardinality({j \in 1..i : segFollowed[j].kind # "skipped"})

\* C26: a line of the protected zone that switched the current section is
\* fully capitalized
C26_ProtectedZoneUpperOnly ==
    \A i \in DOMAIN segFollowed :
        (segFollowed[i].kind = "header" /\ CountAt(i) < ProtectedZone) =>
            IsUpper(segFollowed[i].line)

\* ---- what the line walk accumulates (C27) ----

\* the positions of the history where a header was recognized
HeaderPositions == {i \in DOMAIN segFollowed : segFollowed[i].kind = "header"}

\* the position of the first header recognized after position h
NextHeader(h) ==
    Min({j \in HeaderPositions : j > h} \cup {Len(segFollowed) + 1})

\* the content lines between position h and the next recognized header
SpanLines(h) ==
    LET IsContent(entry) == entry.kind = "content"
        span == SelectSeq(SubSeq(segFollowed, h + 1, NextHeader(h) - 1), IsContent)
    IN  [i \in 1..Len(span) |-> span[i].line]

\* the header recognized last, 0 before any
LastHeader == Max(HeaderPositions \cup {0})

\* the history tells headers from content as _identify_section does
RecognizedAsIdentified ==
    \A i \in DOMAIN segFollowed :
        LET entry == segFollowed[i]
            section_type == HeaderOf(entry.line, CountAt(i))
        IN  entry.kind # "skipped" =>
                /\ (entry.kind = "header") = (section_type # None)
                /\ entry.kind = "header" => entry.section = section_type

\* C27: during the walk the lines accumulated are exactly the content lines
\* since the most recently recognized header, under the section that header
\* opened (contact before any header); at the end the block of every
\* section other than contact is the content lines that followed one
\* recognized header of that section up to the next recognized header, so
\* no header line is part of a block
C27_LinesFollowTheirHeader ==
    /\ segPc \in {"walk", "segmented"} => RecognizedAsIdentified
    /\ segPc = "walk" =>
           /\ segWalk.current_content = SpanLines(LastHeader)
           /\ segWalk.current_section =
                  IF LastHeader = 0 THEN "contact"
                  ELSE segFollowed[LastHeader].section
    /\ segPc = "segmented" =>
           \A k \in Keys(segSections) \ {"contact"} :
               \E h \in FollowedAs("header", k) :
                   /\ SpanLines(h) # <<>>
                   /\ Get(segSections, k) = Strip(Join(SpanLines(h), "\n"))

\* two sections other than contact have a block, each the line that
\* followed its header
C27_Witness ==
    /\ segPc = "segmented"
    /\ {"skills", "education"} \subseteq Keys(segSections)
    /\ \E h \in FollowedAs("header", "skills") :
           /\ SpanLines(h) = <<"My Projects">>
           /\ Get(segSections, "skills") = "My Projects"
    /\ Get(segSections, "education") = "built APIs"

\* ---- the active resume of a user (C28) ----

\* C28: at most one resume record of a user has is_active = true
C28_OneActiveResume ==
    \A user \in Users :
        Cardinality({doc \in resumes : doc.user_id = user /\ doc.is_active}) <= 1

\* ---- the analyze flow on a resume and a job description (C29) ----

\* resume_skills_flat of analyze_resume, lower-cased as analyze does
FlowResumeSkills(resume_text) ==
    {Lower(skill) : skill \in NlpSkills(extract_skills(resume_text))}

\* the job skills analyze puts into its lists of missing skills, before the
\* lists are cut
FlowMissing(resume_skills_lower, job_description) ==
    {skill \in _extract_skills_from_text(job_description) :
        ~InResume(skill, resume_skills_lower)}

\* C29: in the analyze flow, with the text as the resume and as the job
\* description, no job skill whose phrase occurs in the resume text is among
\* the missing skills: what the gap analyzer recognizes in the text, the
\* skill matcher recognizes in it too
C29_RecognizedByBoth ==
    matchPc = "done" =>
        /\ \A skill \in matchJob :
               InResume(skill, {Lower(found) : found \in NlpSkills(matchNlp)})
        /\ \A skill \in FlowMissing(FlowResumeSkills(matchText), matchText) :
               ~DelimitedOccurrence(matchText, skill)

\* ---- the range of the job match score ----

\* C30: for every resume analysis, every job posting and every value the
\* similarity measure returns, calculate_job_match_score returns an integer
\* from 0 to 100: every score the function returned for a job of a
\* recommendations request is in that range
C30_ScoreInRange ==
    jobPc = "answered" /\ jobReq.route = "recommendations" =>
        \A i \in 1..Len(jobReq.jobs) :
            jobReq.outcomes[i] # Failed =>
                jobReq.scores[i] \in 0..MaxMatchScore

====
